---- MODULE Spec2Model ----
(***************************************************************************)
(* OpenAnomaly: the pipeline execution engine and its scheduler sync.      *)
(*                                                                         *)
(*   Spec      schedule sync driven by pipeline saves and deletes          *)
(*             (pipelines/signals.py), scheduler store reachable           *)
(*   SpecFleet the same receivers on two pipelines                           *)
(*   SpecOutage the same receivers while a kind's store call fails          *)
(*   SpecConc  the same receivers run by concurrent request handlers, one  *)
(*             database or store call per step                             *)
(*   SpecHA    two beat replicas on one schedule store and the heartbeat   *)
(*             task (tests/integration/test_scheduler_ha.py)               *)
(*   SpecDur   the duration parser applied to duration strings             *)
(*   SpecTask  one stored pipeline and the forecast, anomaly and training  *)
(*             cycles run on it by the tasks and service entry points      *)
(*   SpecCodec the series identity built by the store adapter's read path  *)
(*             and parsed by its write path                                *)
(*   SpecForecast the forecast cycle row by row: the timestamps the model    *)
(*             adapters give a forecast and the points the loop writes      *)
(***************************************************************************)
EXTENDS Integers, Sequences, FiniteSets, TLC

VARIABLES
    db,        \* Pipeline table: name -> row (NoRow when the row does not exist)
    redis,     \* RedBeat schedule store: key -> entry, defined on the keys that exist
    last,      \* the handler that ran last: [op, name, unchanged, had, down]
    procs,     \* concurrent request handlers: id -> [pc, op, row]
    base,      \* the schedule store as it was before the concurrent handlers began
    beatLock,  \* the scheduler lock: the beat replica that holds it, or NoBeat
    clock,     \* scheduled ticks of the heartbeat entry that have come due
    lastRun,   \* the entry's last_run_at in the store: the last tick dispatched
    fired,     \* tick -> the replicas that dispatched a trigger for it, in order
    pending,   \* heartbeat tasks sent to the broker and not yet executed
    heartbeatCount,  \* the store key scheduler:heartbeat:count
    dur,       \* a duration string and what a parser made of it: [text, by, out]
    yaml,      \* the pipelines file of the YAML configuration store: name -> pipeline
    ports,     \* how the time-series store, the model and the event bus answer
    run,       \* the task or service call that ran last and what it did
    codec,     \* a series identity and what the store adapter made of it
    fc         \* a forecast cycle at the level of rows: context, forecast, points

schedVars == <<db, redis, last>>
concVars == <<procs, base>>
haVars == <<beatLock, clock, lastRun, fired, pending, heartbeatCount>>
durVars == <<dur>>
taskVars == <<yaml, ports, run>>
codecVars == <<codec>>
forecastVars == <<fc>>
vars == <<db, redis, last, procs, base,
          beatLock, clock, lastRun, fired, pending, heartbeatCount,
          dur, yaml, ports, run, codec, fc>>

\* Python's None, and the absence of a row, as records so that they compare with records.
None == [none |-> TRUE]
NoRow == [norow |-> TRUE]

(***************************************************************************)
(* Cron expressions, as the characters of the schedule field.              *)
(***************************************************************************)
Every5Min   == <<"*", "/", "5", " ", "*", " ", "*", " ", "*", " ", "*">>
HourlyWide  == <<"0", " ", " ", "*", " ", "*", " ", "*", " ", "*">>
FourParts   == <<"*", " ", "*", " ", "*", " ", "*">>
BadMinute   == <<"x", " ", "*", " ", "*", " ", "*", " ", "*">>

Empty       == <<>>

\* The schedules a row may carry, per task kind: two that parse and one that does not.
ForecastCrons == {Every5Min, HourlyWide, FourParts}
AnomalyCrons  == {Every5Min, HourlyWide, BadMinute}
TrainingCrons == {Every5Min, HourlyWide, Empty}

PipelineNames == {"a"}

Digits == {"0", "1", "2", "3", "4", "5", "6", "7", "8", "9"}

IsSpace(c) == c = " "

\* str.split() with no separator: the maximal runs of non-whitespace characters.
RECURSIVE SplitFrom(_, _, _)
SplitFrom(s, i, cur) ==
    IF i > Len(s)
    THEN IF cur = <<>> THEN <<>> ELSE <<cur>>
    ELSE IF IsSpace(s[i])
         THEN IF cur = <<>>
              THEN SplitFrom(s, i + 1, <<>>)
              ELSE <<cur>> \o SplitFrom(s, i + 1, <<>>)
         ELSE SplitFrom(s, i + 1, Append(cur, s[i]))

Split(s) == SplitFrom(s, 1, <<>>)

AllDigits(f) == Len(f) > 0 /\ \A i \in 1..Len(f) : f[i] \in Digits

\* celery.schedules.crontab accepts a field that is "*", a number or "*/<number>"
\* (of the forms built from the characters used here) and raises on anything else.
CrontabFieldOK(f) ==
    \/ f = <<"*">>
    \/ AllDigits(f)
    \/ Len(f) > 2 /\ f[1] = "*" /\ f[2] = "/" /\ AllDigits(SubSeq(f, 3, Len(f)))

parse_cron(expression) ==
    LET parts == Split(expression) IN
    IF Len(parts) # 5
    THEN None
    ELSE IF \A i \in 1..5 : CrontabFieldOK(parts[i])
         THEN [minute |-> parts[1], hour |-> parts[2], day_of_month |-> parts[3],
               month_of_year |-> parts[4], day_of_week |-> parts[5]]
         ELSE None

\* parse_cron over the schedules in use, evaluated once per expression.
AllCrons == ForecastCrons \cup AnomalyCrons \cup TrainingCrons
ParsedCron == [e \in AllCrons |-> parse_cron(e)]

(***************************************************************************)
(* RedBeat entries.                                                        *)
(***************************************************************************)
Kinds == {"forecast", "anomaly", "training"}

RedBeatKeyPerKind(name, kind) == "redbeat:pipeline_" \o kind

RedBeatKey(name, kind) == "redbeat:pipeline_" \o name \o "_" \o kind

RedBeatEntry(name, kind, task, schedule_obj) ==
    [name |-> "pipeline_" \o name \o "_" \o kind,
     task |-> task,
     schedule |-> schedule_obj,
     args |-> <<name>>]

\* RedBeatSchedulerEntry.key: the key prefix followed by the entry's name.
EntryKey(entry) == "redbeat:" \o entry.name

\* entry.save(): the definition stored under the entry's key replaces what was there.
EntrySaveMerging(r, entry) ==
    LET k == EntryKey(entry) IN
    IF k \in DOMAIN r
    THEN [x \in DOMAIN r |-> IF x = k THEN [entry EXCEPT !.args = r[k].args \o entry.args]
                                      ELSE r[x]]
    ELSE [x \in DOMAIN r \cup {k} |-> IF x = k THEN entry ELSE r[x]]

EntrySave(r, entry) ==
    LET k == EntryKey(entry) IN
    [x \in DOMAIN r \cup {k} |-> IF x = k THEN entry ELSE r[x]]

\* RedBeatSchedulerEntry.from_key(key).delete(); from_key raises KeyError on a
\* missing key, which the callers pass over.
EntryDeleteByPattern(r, key) == <<>>

EntryDelete(r, key) == [x \in DOMAIN r \ {key} |-> r[x]]

(***************************************************************************)
(* sync_pipeline_to_redbeat: one block per task kind.  fails: the store     *)
(* call of the block raises (connection error), which the block logs.      *)
(***************************************************************************)
SyncBlockNoMaster(r, instance, kind, kind_enabled, kind_schedule, task, fails) ==
    IF kind_enabled
    THEN LET schedule_obj == ParsedCron[kind_schedule] IN
         IF schedule_obj # None
         THEN IF fails
              THEN r
              ELSE EntrySave(r, RedBeatEntry(instance.name, kind, task, schedule_obj))
         ELSE r
    ELSE IF fails
         THEN r
         ELSE EntryDelete(r, RedBeatKey(instance.name, kind))

SyncBlock(r, instance, kind, kind_enabled, kind_schedule, task, fails) ==
    IF instance.enabled /\ kind_enabled
    THEN LET schedule_obj == ParsedCron[kind_schedule] IN
         IF schedule_obj # None
         THEN IF fails
              THEN r
              ELSE EntrySave(r, RedBeatEntry(instance.name, kind, task, schedule_obj))
         ELSE r
    ELSE IF fails
         THEN r
         ELSE EntryDelete(r, RedBeatKey(instance.name, kind))

sync_pipeline_to_redbeat(r, instance, down) ==
    LET r1 == SyncBlock(r, instance, "forecast", instance.forecast_enabled,
                        instance.forecast_schedule, "openanomaly.tasks.run_forecast",
                        "forecast" \in down)
        r2 == SyncBlock(r1, instance, "anomaly", instance.anomaly_enabled,
                        instance.anomaly_schedule, "openanomaly.tasks.run_anomaly_check",
                        "anomaly" \in down)
    IN  SyncBlock(r2, instance, "training", instance.training_enabled,
                  instance.training_schedule, "openanomaly.tasks.train_model",
                  "training" \in down)

\* delete_pipeline_from_redbeat: every key, every exception passed over.
RECURSIVE DeleteKeysStopAtMissing(_, _, _)
DeleteKeysStopAtMissing(r, keys, downKeys) ==
    IF keys = <<>> \/ Head(keys) \notin DOMAIN r
    THEN r
    ELSE DeleteKeysStopAtMissing(IF Head(keys) \in downKeys THEN r
                                 ELSE EntryDelete(r, Head(keys)),
                                 Tail(keys), downKeys)

RECURSIVE DeleteKeys(_, _, _)
DeleteKeys(r, keys, downKeys) ==
    IF keys = <<>>
    THEN r
    ELSE DeleteKeys(IF Head(keys) \in downKeys THEN r ELSE EntryDelete(r, Head(keys)),
                    Tail(keys), downKeys)

delete_pipeline_from_redbeat(r, name, down) ==
    DeleteKeys(r,
               <<RedBeatKey(name, "forecast"), RedBeatKey(name, "anomaly"),
                 RedBeatKey(name, "training")>>,
               {RedBeatKey(name, k) : k \in down})

(***************************************************************************)
(* Pipeline rows and the operations that save and delete them.             *)
(***************************************************************************)
\* The kinds of pipeline n whose key the store r holds.
KindsHeld(r, n) == {k \in Kinds : RedBeatKey(n, k) \in DOMAIN r}

Rows(n) ==
    [name : {n}, enabled : BOOLEAN,
     forecast_enabled : BOOLEAN, forecast_schedule : ForecastCrons,
     anomaly_enabled : BOOLEAN, anomaly_schedule : AnomalyCrons,
     training_enabled : BOOLEAN, training_schedule : TrainingCrons]

\* Pipeline.save() (admin, REST create/update, seeding) and its post_save receiver.
SavePipeline(n, row, down) ==
    /\ db' = [db EXCEPT ![n] = row]
    /\ redis' = sync_pipeline_to_redbeat(redis, row, down)
    /\ last' = [op |-> "save", name |-> n, unchanged |-> (db[n] = row),
                had |-> KindsHeld(redis, n), down |-> down]
    /\ UNCHANGED <<concVars, haVars, durVars, codecVars, taskVars, forecastVars>>

\* DjangoSchedulerAdapter._disable_pipeline: enabled = False, save().
DisablePipeline(n, down) ==
    /\ db[n] # NoRow
    /\ LET row == [db[n] EXCEPT !.enabled = FALSE] IN
       /\ db' = [db EXCEPT ![n] = row]
       /\ redis' = sync_pipeline_to_redbeat(redis, row, down)
       /\ last' = [op |-> "disable", name |-> n, unchanged |-> (db[n] = row),
                   had |-> KindsHeld(redis, n), down |-> down]
    /\ UNCHANGED <<concVars, haVars, durVars, codecVars, taskVars, forecastVars>>

\* Pipeline.delete() and its post_delete receiver.
DeletePipeline(n, down) ==
    /\ db[n] # NoRow
    /\ db' = [db EXCEPT ![n] = NoRow]
    /\ redis' = delete_pipeline_from_redbeat(redis, n, down)
    /\ last' = [op |-> "delete", name |-> n, unchanged |-> FALSE,
                had |-> KindsHeld(redis, n), down |-> down]
    /\ UNCHANGED <<concVars, haVars, durVars, codecVars, taskVars, forecastVars>>

NoBeat == "none"

\* The scheduler replicas are not part of this specification's run.
HAIdle ==
    /\ beatLock = NoBeat
    /\ clock = 0
    /\ lastRun = 0
    /\ fired = <<>>
    /\ pending = 0
    /\ heartbeatCount = 0

NotParsed == [err |-> "not parsed", value |-> 0]

\* No duration is being parsed in this specification's run.
DurIdle == dur = [text |-> <<>>, by |-> "none", out |-> NotParsed]

\* No series identity is being encoded or decoded in this specification's run.
CodecIdle == codec = [stage |-> "none"]

\* No forecast cycle is followed row by row in this specification's run.
ForecastIdle == fc = [stage |-> "none"]

NotRun == [entry |-> "none"]

\* No task runs in this specification's run.
TaskIdle ==
    /\ yaml = <<>>
    /\ ports = <<>>
    /\ run = NotRun

Init ==
    /\ db = [n \in PipelineNames |-> NoRow]
    /\ redis = <<>>
    /\ last = [op |-> "none", name |-> "", unchanged |-> FALSE, had |-> {}, down |-> {}]
    /\ procs = <<>>
    /\ base = <<>>
    /\ HAIdle
    /\ DurIdle
    /\ CodecIdle
    /\ ForecastIdle
    /\ TaskIdle

Next ==
    \/ \E n \in PipelineNames : \E row \in Rows(n) : SavePipeline(n, row, {})
    \/ \E n \in PipelineNames : DisablePipeline(n, {})
    \/ \E n \in PipelineNames : DeletePipeline(n, {})

Spec == Init /\ [][Next]_vars

(***************************************************************************)
(* Schedule sync, scheduler store reachable (Spec).                        *)
(***************************************************************************)
SyncOps == {"save", "disable"}

KindEnabled(row, kind) ==
    CASE kind = "forecast" -> row.forecast_enabled
      [] kind = "anomaly"  -> row.anomaly_enabled
      [] kind = "training" -> row.training_enabled

KindSchedule(row, kind) ==
    CASE kind = "forecast" -> row.forecast_schedule
      [] kind = "anomaly"  -> row.anomaly_schedule
      [] kind = "training" -> row.training_schedule

\* What the contract asks of a kind's key after reconcile.
EntryWanted(row, kind) ==
    row.enabled /\ KindEnabled(row, kind) /\ ParsedCron[KindSchedule(row, kind)] # None

\* C1: a schedule sync that runs for a pipeline whose row is unchanged since its
\* previous sync leaves the store's entries (keys, task, cron, args) as they were.
C1_ReconcileIdempotent ==
    [][(last'.op \in SyncOps /\ last'.unchanged) => redis' = redis]_vars

C1_Witness ==
    /\ last.op = "save" /\ last.unchanged
    /\ Cardinality(DOMAIN redis) = 2

\* C2: after a sync, a kind's key exists exactly when the pipeline and the kind
\* are enabled and the kind's cron expression parses.
C2_EntryIffWanted ==
    last.op \in SyncOps =>
        \A k \in Kinds :
            RedBeatKey(last.name, k) \in DOMAIN redis <=> EntryWanted(db[last.name], k)

\* C3: after a sync of a pipeline whose master switch is off, none of its three
\* keys exists, whatever the kinds' own flags and schedules.
C3_MasterSwitchOff ==
    (last.op \in SyncOps /\ ~db[last.name].enabled) =>
        KindsHeld(redis, last.name) = {}

C3_Witness ==
    /\ last.op = "disable" /\ ~last.unchanged
    /\ "forecast" \in last.had
    /\ db[last.name].forecast_enabled
    /\ parse_cron(db[last.name].forecast_schedule) # None
    /\ KindsHeld(redis, last.name) = {}

\* C4: after the removal that follows a pipeline's deletion none of its three
\* keys exists, also when some of them were missing beforehand.
C4_RemoveDeletesAll ==
    last.op = "delete" => KindsHeld(redis, last.name) = {}

C4_Witness ==
    /\ last.op = "delete"
    /\ last.had = {"anomaly", "training"}
    /\ KindsHeld(redis, last.name) = {}

(***************************************************************************)
(* SpecConc: the receivers run by concurrent request handlers.  A handler  *)
(* writes or deletes the row, then runs the receiver; every database or     *)
(* store call is one step, so the calls of several handlers interleave.     *)
(***************************************************************************)
ProcIds == {"p1", "p2"}

ConcName == "a"

\* The rows the concurrent handlers save: the master switch, the forecast block
\* with every flag and schedule, the anomaly block with its flag, training off.
ConcRows ==
    [name : {ConcName}, enabled : BOOLEAN,
     forecast_enabled : BOOLEAN, forecast_schedule : ForecastCrons,
     anomaly_enabled : BOOLEAN, anomaly_schedule : {Every5Min},
     training_enabled : {FALSE}, training_schedule : {HourlyWide}]

Idle == [pc |-> "idle", op |-> "none", row |-> NoRow]

TaskOf(kind) ==
    CASE kind = "forecast" -> "openanomaly.tasks.run_forecast"
      [] kind = "anomaly"  -> "openanomaly.tasks.run_anomaly_check"
      [] kind = "training" -> "openanomaly.tasks.train_model"

AfterKind(kind) ==
    CASE kind = "forecast" -> "anomaly"
      [] kind = "anomaly"  -> "training"
      [] kind = "training" -> "done"

Deleting(kind) == kind \o "_del"

\* save(): the row is written, the post_save receiver starts.
ConcSaveRow(p, row) ==
    /\ procs[p].pc = "idle"
    /\ db' = [db EXCEPT ![row.name] = row]
    /\ procs' = [procs EXCEPT ![p] = [pc |-> "forecast", op |-> "save", row |-> row]]
    /\ UNCHANGED <<redis, last, base>>
    /\ UNCHANGED <<haVars, durVars, codecVars, taskVars, forecastVars>>

\* delete(): the row is removed, the post_delete receiver starts with the instance.
ConcDeleteRow(p) ==
    /\ procs[p].pc = "idle"
    /\ db[ConcName] # NoRow
    /\ db' = [db EXCEPT ![ConcName] = NoRow]
    /\ procs' = [procs EXCEPT ![p] = [pc |-> "forecast", op |-> "delete",
                                       row |-> db[ConcName]]]
    /\ UNCHANGED <<redis, last, base>>
    /\ UNCHANGED <<haVars, durVars, codecVars, taskVars, forecastVars>>

\* The enabled branch of a block: parse_cron, then entry.save() when it parsed.
ConcUpsert(p, kind) ==
    /\ procs[p].pc = kind /\ procs[p].op = "save"
    /\ procs[p].row.enabled /\ KindEnabled(procs[p].row, kind)
    /\ LET schedule_obj == ParsedCron[KindSchedule(procs[p].row, kind)] IN
       redis' = IF schedule_obj # None
                THEN EntrySave(redis, RedBeatEntry(procs[p].row.name, kind, TaskOf(kind),
                                                   schedule_obj))
                ELSE redis
    /\ procs' = [procs EXCEPT ![p].pc = AfterKind(kind)]
    /\ UNCHANGED <<db, last, base>>
    /\ UNCHANGED <<haVars, durVars, codecVars, taskVars, forecastVars>>

\* from_key(key) of the else branch and of the post_delete loop: KeyError on a
\* missing key is passed over, otherwise the entry is in hand for delete().
ConcFromKey(p, kind) ==
    /\ procs[p].pc = kind
    /\ \/ procs[p].op = "delete"
       \/ procs[p].op = "save" /\ ~(procs[p].row.enabled /\ KindEnabled(procs[p].row, kind))
    /\ procs' = [procs EXCEPT ![p].pc =
                    IF RedBeatKey(procs[p].row.name, kind) \in DOMAIN redis
                    THEN Deleting(kind) ELSE AfterKind(kind)]
    /\ UNCHANGED <<db, redis, last, base>>
    /\ UNCHANGED <<haVars, durVars, codecVars, taskVars, forecastVars>>

\* .delete() on the entry that from_key returned.
ConcDelete(p, kind) ==
    /\ procs[p].pc = Deleting(kind)
    /\ redis' = EntryDelete(redis, RedBeatKey(procs[p].row.name, kind))
    /\ procs' = [procs EXCEPT ![p].pc = AfterKind(kind)]
    /\ UNCHANGED <<db, last, base>>
    /\ UNCHANGED <<haVars, durVars, codecVars, taskVars, forecastVars>>

\* Before the handlers begin the pipeline has been saved once and synced.
InitConc ==
    /\ \E r0 \in ConcRows :
          /\ db = [n \in PipelineNames |-> IF n = ConcName THEN r0 ELSE NoRow]
          /\ redis = sync_pipeline_to_redbeat(<<>>, r0, {})
    /\ base = redis
    /\ procs = [p \in ProcIds |-> Idle]
    /\ last = [op |-> "none", name |-> "", unchanged |-> FALSE, had |-> {}, down |-> {}]
    /\ HAIdle
    /\ DurIdle
    /\ CodecIdle
    /\ ForecastIdle
    /\ TaskIdle

NextConc ==
    \/ \E p \in ProcIds : \E row \in ConcRows : ConcSaveRow(p, row)
    \/ \E p \in ProcIds : ConcDeleteRow(p)
    \/ \E p \in ProcIds : \E kind \in Kinds : ConcUpsert(p, kind)
    \/ \E p \in ProcIds : \E kind \in Kinds : ConcFromKey(p, kind)
    \/ \E p \in ProcIds : \E kind \in Kinds : ConcDelete(p, kind)

SpecConc == InitConc /\ [][NextConc]_vars

NoEntry == [noentry |-> TRUE]

EntryAt(r, key) == IF key \in DOMAIN r THEN r[key] ELSE NoEntry

AllDone == \A p \in ProcIds : procs[p].pc = "done"

AllSaves == \A p \in ProcIds : procs[p].op = "save"

\* The store that handler p's sync alone would leave, started from base.
Alone(p) == sync_pipeline_to_redbeat(base, procs[p].row, {})

\* C5: when concurrent syncs of one pipeline have all completed, each key is in
\* the state that one of the syncs alone would have left, and when all carried
\* the same row the store is what a single sync would have left.
C5_ConcurrentSyncSafe ==
    (AllDone /\ AllSaves) =>
        /\ \A k \in Kinds : \E p \in ProcIds :
              EntryAt(redis, RedBeatKey(ConcName, k))
                  = EntryAt(Alone(p), RedBeatKey(ConcName, k))
        /\ DOMAIN redis \subseteq {RedBeatKey(ConcName, k) : k \in Kinds}
        /\ (\A p, q \in ProcIds : procs[p].row = procs[q].row) =>
              \A p \in ProcIds : redis = Alone(p)

\* Two syncs that disagree on both the forecast and the anomaly key have
\* interleaved: one key is as p1 alone leaves it, the other as p2 alone does.
C5_Witness ==
    /\ AllDone /\ AllSaves
    /\ LET fk == RedBeatKey(ConcName, "forecast")
           ak == RedBeatKey(ConcName, "anomaly") IN
       /\ EntryAt(Alone("p1"), fk) # EntryAt(Alone("p2"), fk)
       /\ EntryAt(Alone("p1"), ak) # EntryAt(Alone("p2"), ak)
       /\ EntryAt(redis, fk) = EntryAt(Alone("p1"), fk)
       /\ EntryAt(redis, ak) = EntryAt(Alone("p2"), ak)

(***************************************************************************)
(* SpecHA: the scheduler replicas of test_scheduler_ha_deduplication.      *)
(* RedBeat and its lock are outside the repository; the replicas follow    *)
(* the specification's section 5: the replica holding the scheduler lock   *)
(* dispatches, and a tick recorded in the entry is not dispatched again.   *)
(***************************************************************************)
Replicas == {"beat1", "beat2"}

MaxTicks == 4

\* A replica takes the free scheduler lock.
AcquireLock(b) ==
    /\ beatLock = NoBeat
    /\ beatLock' = b
    /\ UNCHANGED <<clock, lastRun, fired, pending, heartbeatCount>>
    /\ UNCHANGED <<schedVars, concVars, durVars, codecVars, taskVars, forecastVars>>

\* The holder stops or its lock expires: another replica may take over.
LoseLock(b) ==
    /\ beatLock = b
    /\ beatLock' = NoBeat
    /\ UNCHANGED <<clock, lastRun, fired, pending, heartbeatCount>>
    /\ UNCHANGED <<schedVars, concVars, durVars, codecVars, taskVars, forecastVars>>

\* The entry's interval elapses: one more tick is due.
TickDue ==
    /\ clock < MaxTicks
    /\ clock' = clock + 1
    /\ UNCHANGED <<beatLock, lastRun, fired, pending, heartbeatCount>>
    /\ UNCHANGED <<schedVars, concVars, durVars, codecVars, taskVars, forecastVars>>

\* The lock holder finds the entry due, sends the task and records the run.
Dispatch(b) ==
    /\ beatLock = b
    /\ lastRun < clock
    /\ fired' = [fired EXCEPT ![clock] = Append(@, b)]
    /\ lastRun' = clock
    /\ pending' = pending + 1
    /\ UNCHANGED <<beatLock, clock, heartbeatCount>>
    /\ UNCHANGED <<schedVars, concVars, durVars, codecVars, taskVars, forecastVars>>

\* heartbeat_task on a worker: r.incr("scheduler:heartbeat:count").
heartbeat_task_twice ==
    /\ pending > 0
    /\ pending' = pending - 1
    /\ heartbeatCount' = heartbeatCount + 2
    /\ UNCHANGED <<beatLock, clock, lastRun, fired>>
    /\ UNCHANGED <<schedVars, concVars, durVars, codecVars, taskVars, forecastVars>>

heartbeat_task ==
    /\ pending > 0
    /\ pending' = pending - 1
    /\ heartbeatCount' = heartbeatCount + 1
    /\ UNCHANGED <<beatLock, clock, lastRun, fired>>
    /\ UNCHANGED <<schedVars, concVars, durVars, codecVars, taskVars, forecastVars>>

\* The test deletes the counter and saves the entry before the replicas run.
InitHA ==
    /\ beatLock = NoBeat
    /\ clock = 0
    /\ lastRun = 0
    /\ fired = [t \in 1..MaxTicks |-> <<>>]
    /\ pending = 0
    /\ heartbeatCount = 0
    /\ db = [n \in PipelineNames |-> NoRow]
    /\ redis = <<>>
    /\ last = [op |-> "none", name |-> "", unchanged |-> FALSE, had |-> {}, down |-> {}]
    /\ procs = <<>>
    /\ base = <<>>
    /\ DurIdle
    /\ CodecIdle
    /\ ForecastIdle
    /\ TaskIdle

NextHA ==
    \/ \E b \in Replicas : AcquireLock(b)
    \/ \E b \in Replicas : LoseLock(b)
    \/ TickDue
    \/ \E b \in Replicas : Dispatch(b)
    \/ heartbeat_task

SpecHA == InitHA /\ [][NextHA]_vars

DigitSeq == <<"0", "1", "2", "3", "4", "5", "6", "7", "8", "9">>

DigitChar(d) == DigitSeq[d + 1]

DigitVal(c) == CHOOSE d \in 0..9 : DigitSeq[d + 1] = c

\* str(n), f"{n}": the decimal digits of a non-negative integer.
RECURSIVE Str(_)
Str(n) == IF n < 10 THEN <<DigitChar(n)>> ELSE Str(n \div 10) \o <<DigitChar(n % 10)>>

\* int(text) strips surrounding whitespace, takes one optional sign and then
\* digits, with single underscores allowed between digits.
RECURSIVE StripLeft(_)
StripLeft(s) == IF s # <<>> /\ IsSpace(Head(s)) THEN StripLeft(Tail(s)) ELSE s

RECURSIVE StripRight(_)
StripRight(s) ==
    IF s # <<>> /\ IsSpace(s[Len(s)]) THEN StripRight(SubSeq(s, 1, Len(s) - 1)) ELSE s

IsIntBody(s) ==
    /\ s # <<>>
    /\ s[1] \in Digits /\ s[Len(s)] \in Digits
    /\ \A i \in 1..Len(s) : s[i] \in Digits \cup {"_"}
    /\ \A i \in 1..(Len(s) - 1) : ~(s[i] = "_" /\ s[i + 1] = "_")

RECURSIVE IntBodyValue(_, _)
IntBodyValue(s, acc) ==
    IF s = <<>> THEN acc
    ELSE IF Head(s) = "_" THEN IntBodyValue(Tail(s), acc)
         ELSE IntBodyValue(Tail(s), 10 * acc + DigitVal(Head(s)))

\* The digits after the optional sign: [ok, value]; ok is FALSE where Python
\* raises ValueError.
SignedInt(sign, digits) ==
    IF IsIntBody(digits)
    THEN [ok |-> TRUE,
          value |-> IF sign = "-" THEN 0 - IntBodyValue(digits, 0)
                    ELSE IntBodyValue(digits, 0)]
    ELSE [ok |-> FALSE, value |-> 0]

IntOfStripped(t) ==
    IF t # <<>> /\ t[1] \in {"+", "-"} THEN SignedInt(t[1], Tail(t)) ELSE SignedInt("+", t)

\* int(text)
PyInt(text) == IntOfStripped(StripRight(StripLeft(text)))

Parsed(v) == [err |-> "none", value |-> v]

Raised(e) == [err |-> e, value |-> 0]

\* InferenceLoop._parse_duration with the day unit falling through to the default.
_parse_duration_without_days(duration_str) ==
    IF duration_str = <<>>
    THEN Raised("IndexError")
    ELSE LET unit == duration_str[Len(duration_str)]
             value == PyInt(SubSeq(duration_str, 1, Len(duration_str) - 1))
         IN  IF ~value.ok THEN Raised("ValueError")
             ELSE Parsed(value.value * (CASE unit = "s" -> 1
                                          [] unit = "m" -> 60
                                          [] unit = "h" -> 3600
                                          [] OTHER -> 1))

\* InferenceLoop._parse_duration of openanomaly/pipelines/inference.py: the last
\* character is the unit, int() of the rest the value; an unknown unit returns
\* the value as it is.
_parse_duration(duration_str) ==
    IF duration_str = <<>>
    THEN Raised("IndexError")
    ELSE LET unit == duration_str[Len(duration_str)]
             value == PyInt(SubSeq(duration_str, 1, Len(duration_str) - 1))
         IN  IF ~value.ok THEN Raised("ValueError")
             ELSE Parsed(value.value * (CASE unit = "s" -> 1
                                          [] unit = "m" -> 60
                                          [] unit = "h" -> 3600
                                          [] unit = "d" -> 86400
                                          [] OTHER -> 1))

\* InferenceLoop._parse_duration of openanomaly/core/services/inference_loop.py.
core_parse_duration(duration_str) ==
    IF duration_str = <<>>
    THEN Raised("IndexError")
    ELSE LET unit == duration_str[Len(duration_str)]
             value == PyInt(SubSeq(duration_str, 1, Len(duration_str) - 1))
         IN  IF ~value.ok THEN Raised("ValueError")
             ELSE Parsed(value.value * (CASE unit = "s" -> 1
                                          [] unit = "m" -> 60
                                          [] unit = "h" -> 3600
                                          [] unit = "d" -> 86400
                                          [] OTHER -> 1))

Units == {"s", "m", "h", "d"}

MaxMagnitude == 120

\* The strings formed by the digits of n followed by a unit.
WellFormed == {Str(n) \o <<u>> : n \in 0..MaxMagnitude, u \in Units}

\* Strings of other shapes that a configuration field can hold.
OtherDurations ==
    {<<>>, <<"1", "5">>, <<"h">>, <<"5", "x">>, <<"x", "m">>,
     <<"1", "h", "3", "0", "m">>, <<"-", "5", "m">>, <<"+", "5", "m">>,
     <<" ", "5", "m">>, <<"5", " ", "m">>, <<"1", "_", "0", "s">>,
     <<"0", "0", "7", "d">>, <<"5", "m", " ">>}

Durations == WellFormed \cup OtherDurations

PipelinesParse ==
    /\ dur' = [dur EXCEPT !.by = "pipelines", !.out = _parse_duration(dur.text)]
    /\ UNCHANGED <<schedVars, concVars, haVars, taskVars, codecVars, forecastVars>>

CoreParse ==
    /\ dur' = [dur EXCEPT !.by = "core", !.out = core_parse_duration(dur.text)]
    /\ UNCHANGED <<schedVars, concVars, haVars, taskVars, codecVars, forecastVars>>

InitDur ==
    /\ \E text \in Durations : dur = [text |-> text, by |-> "none", out |-> NotParsed]
    /\ db = [n \in PipelineNames |-> NoRow]
    /\ redis = <<>>
    /\ last = [op |-> "none", name |-> "", unchanged |-> FALSE, had |-> {}, down |-> {}]
    /\ procs = <<>>
    /\ base = <<>>
    /\ HAIdle
    /\ TaskIdle
    /\ CodecIdle
    /\ ForecastIdle

NextDur ==
    \/ PipelinesParse
    \/ CoreParse

SpecDur == InitDur /\ [][NextDur]_vars

\* The seconds of a unit as the contract states them.
UnitSeconds(u) ==
    CASE u = "s" -> 1
      [] u = "m" -> 60
      [] u = "h" -> 3600
      [] u = "d" -> 86400

\* C10: for every non-negative integer n and every unit u of s, m, h, d, either
\* parser applied to the digits of n followed by u returns n times the unit's
\* seconds.
C10_ParseRoundTrip ==
    dur.by # "none" =>
        \A n \in 0..MaxMagnitude : \A u \in Units :
            dur.text = Str(n) \o <<u>> => dur.out = Parsed(n * UnitSeconds(u))

\* "90d" parsed by the core copy: 7776000 seconds.
C10_Witness ==
    /\ dur.text = <<"9", "0", "d">>
    /\ dur.by = "core"
    /\ dur.out = Parsed(7776000)

\* The shape the contract admits: one or more digits, then one unit character.
IsDigitsThenUnit(text) ==
    /\ Len(text) >= 2
    /\ text[Len(text)] \in Units
    /\ AllDigits(SubSeq(text, 1, Len(text) - 1))

\* C11: the parser rejects every string that is not digits followed by one unit
\* of s, m, h, d: it fails and yields no number of seconds.  Any exception the
\* parser raises is taken as the rejection, whatever its class.
C11_RejectsMalformed ==
    (dur.by # "none" /\ ~IsDigitsThenUnit(dur.text)) => dur.out.err # "none"

(***************************************************************************)
(* SpecTask: the forecast, anomaly and training cycles.  A cycle's result  *)
(* is [calls, error, ret]: the port calls it made in order, the exception  *)
(* it raised ("" when none) and what it returned.                          *)
(***************************************************************************)
Returned(calls, ret) == [calls |-> calls, error |-> "", ret |-> ret]

Raising(calls, error) == [calls |-> calls, error |-> error, ret |-> ""]

Call(op) == [op |-> op]

\* The cycle result r after the calls made before it.
After(calls, r) == [calls |-> calls \o r.calls, error |-> r.error, ret |-> r.ret]

\* Two steps in sequence: an exception of the first ends the cycle.
Then(first, second) == IF first.error # "" THEN first ELSE After(first.calls, second)

\* int(horizon_seconds / step_seconds): true division, truncated towards zero.
TruncDiv(a, b) ==
    LET abs(x) == IF x < 0 THEN 0 - x ELSE x
        q == abs(a) \div abs(b)
    IN  IF (a < 0) = (b < 0) THEN q ELSE 0 - q

\* The call of engine.predict as the cycle's record keeps it: the length asked
\* for and what came back ("rows", "empty" or "raised").
PredictCall(prediction_length, result) ==
    [op |-> "predict", prediction_length |-> prediction_length, result |-> result]

\* RemoteModelAdapter.predict: the endpoint's answer p.predict is an HTTP error,
\* a body without values or a body with values; the future timestamps are spaced
\* as the last two context rows, and a shorter context raises.
remote_predict(p, before, n, empty) ==
    IF p.predict = "raise"
    THEN Raising(before \o <<PredictCall(n, "raised")>>, "PortError")
    ELSE IF p.predict = "empty"
    THEN Returned(before \o <<PredictCall(n, "empty")>>, empty)
    ELSE IF p.rows >= 2
    THEN Returned(before \o <<PredictCall(n, "rows")>>, "forecast")
    ELSE Raising(before \o <<PredictCall(n, "raised")>>,
                 "ValueError: Input context too short to infer frequency")

\* ChronosAdapter.predict: the Chronos pipeline's answer p.predict is an
\* exception, samples of length zero or samples; the future timestamps are spaced
\* as the last two context rows, or one minute apart for a shorter context.
chronos_predict(p, before, n, empty) ==
    IF p.predict = "raise"
    THEN Raising(before \o <<PredictCall(n, "raised")>>, "PortError")
    ELSE IF p.predict = "empty"
    THEN Returned(before \o <<PredictCall(n, "empty")>>, empty)
    ELSE IF p.rows >= 2
    THEN Returned(before \o <<PredictCall(n, "rows")>>, "forecast")
    ELSE Returned(before \o <<PredictCall(n, "rows")>>, "forecast at 1m")

\* engine.predict(context_df, req) and the empty check on what it returns;
\* empty is what the caller gets for an empty frame.
Predict(model_type, p, prediction_length, empty) ==
    IF model_type = "remote"
    THEN remote_predict(p, <<Call("query_range")>>, prediction_length, empty)
    ELSE chronos_predict(p, <<Call("query_range")>>, prediction_length, empty)

\* The forecast request: horizon and step parsed, their quotient the length.
PrepareRequest(model_type, p, horizon_seconds, step_seconds, empty) ==
    IF horizon_seconds.err # "none"
    THEN Raising(<<Call("query_range")>>, horizon_seconds.err)
    ELSE IF step_seconds.err # "none"
    THEN Raising(<<Call("query_range")>>, step_seconds.err)
    ELSE IF step_seconds.value = 0
    THEN Raising(<<Call("query_range")>>, "ZeroDivisionError")
    ELSE Predict(model_type, p, TruncDiv(horizon_seconds.value, step_seconds.value), empty)

\* The fetch of the context window once the window has been parsed; request is
\* the rest of the cycle, taken when the fetch returned rows.
FetchContext(p, window_seconds, request, empty) ==
    IF window_seconds.err # "none" THEN Raising(<<>>, window_seconds.err)
    ELSE IF p.fetchFails THEN Raising(<<Call("query_range")>>, "PortError")
    ELSE IF p.rows = 0 THEN Returned(<<Call("query_range")>>, empty)
    ELSE request

\* pipelines.inference.InferenceLoop.generate_forecast; p is how the ports answer.
generate_forecast(pipeline, p) ==
    FetchContext(p, _parse_duration(pipeline.context_window),
                 PrepareRequest(pipeline.model.type, p,
                                _parse_duration(pipeline.prediction_horizon),
                                _parse_duration(pipeline.step), "empty"),
                 "empty")

\* A write that sends the rows of the forecast in two calls.
WritePerRow(p) ==
    IF p.writeFails THEN Raising(<<Call("write")>>, "PortError")
    ELSE Returned(<<Call("write"), Call("write")>>, "None")

\* tsdb.write(metrics_df): a forecast has rows, so there are points to write.
Write(p) ==
    IF p.writeFails THEN Raising(<<Call("write")>>, "PortError")
    ELSE Returned(<<Call("write")>>, "None")

\* run_forecast with the empty check dropped: an empty forecast goes on to the write.
WriteAlways(forecast_df, p) == Then(forecast_df, Write(p))

\* run_forecast after generate_forecast: return on an empty frame, else
\* write_forecast_results.
WriteUnlessEmpty(forecast_df, p) ==
    IF forecast_df.error = "" /\ forecast_df.ret = "empty"
    THEN Returned(forecast_df.calls, "None")
    ELSE Then(forecast_df, Write(p))

\* pipelines.inference.InferenceLoop.run_forecast
run_forecast(pipeline, p) == WriteUnlessEmpty(generate_forecast(pipeline, p), p)

\* The lookback of run_anomaly_check once parsed; nothing else is implemented.
AnomalyLookback(lookback) ==
    IF lookback.err # "none" THEN Raising(<<>>, lookback.err) ELSE Returned(<<>>, "None")

\* pipelines.inference.InferenceLoop.run_anomaly_check
run_anomaly_check(pipeline, p) == AnomalyLookback(_parse_duration(pipeline.prediction_horizon))

\* core.services.inference_loop.InferenceLoop.run_pipeline: fetch, predict and
\* write in one method, returning None on an empty fetch or forecast.
run_pipeline(pipeline, p) ==
    WriteUnlessEmpty(
        FetchContext(p, core_parse_duration(pipeline.context_window),
                     PrepareRequest(pipeline.model.type, p,
                                    core_parse_duration(pipeline.prediction_horizon),
                                    core_parse_duration(pipeline.step), "empty"),
                     "empty"),
        p)

\* timedelta(days=...) or timedelta(hours=...) of the window's magnitude.
WindowOf(magnitude, seconds) ==
    IF magnitude.ok THEN Parsed(magnitude.value * seconds) ELSE Raised("ValueError")

\* The window parse of run_training: days, hours, anything else 30 days.
training_window_seconds(window_str) ==
    IF window_str # <<>> /\ window_str[Len(window_str)] = "d"
    THEN WindowOf(PyInt(SubSeq(window_str, 1, Len(window_str) - 1)), 86400)
    ELSE IF window_str # <<>> /\ window_str[Len(window_str)] = "h"
    THEN WindowOf(PyInt(SubSeq(window_str, 1, Len(window_str) - 1)), 3600)
    ELSE Parsed(30 * 86400)

\* run_training from the fetch on.  has_read_series and has_train: the injected
\* store and model objects have the methods the loop calls.
FetchAndTrain(p, window_delta, has_read_series, has_train) ==
    LET fetch == <<[op |-> "read_series", window_seconds |-> window_delta.value]>> IN
    IF window_delta.err # "none" THEN Raising(<<>>, window_delta.err)
    ELSE IF ~has_read_series THEN Raising(<<>>, "AttributeError")
    ELSE IF p.fetchFails THEN Raising(fetch, "PortError")
    ELSE IF p.rows = 0 THEN Returned(fetch, "None")
    ELSE IF ~has_train THEN Raising(fetch, "AttributeError")
    ELSE IF p.train = "raise" THEN Raising(Append(fetch, Call("train")), "PortError")
    ELSE Returned(Append(fetch, Call("train")), "model-2")

\* run_training with the enabled flag not consulted.
run_training_ignoring_enabled(pipeline, p, has_read_series, has_train) ==
    IF pipeline.training = None
    THEN Returned(<<>>, "None")
    ELSE FetchAndTrain(p, training_window_seconds(pipeline.training.window),
                       has_read_series, has_train)

\* core.services.training_loop.TrainingLoop.run_training
run_training(pipeline, p, has_read_series, has_train) ==
    IF pipeline.training = None \/ ~pipeline.training.enabled
    THEN Returned(<<>>, "None")
    ELSE FetchAndTrain(p, training_window_seconds(pipeline.training.window),
                       has_read_series, has_train)

\* openanomaly.pipelines.training.TrainingLoop.run_training, after the training
\* loop of the specification (section 4.5): the window is a duration, the fetch
\* goes through the store port.
PipelinesFetchAndTrain(p, window) ==
    LET fetch == <<[op |-> "query_range", window_seconds |-> window.value]>> IN
    IF window.err # "none" THEN Raising(<<>>, window.err)
    ELSE IF p.fetchFails THEN Raising(fetch, "PortError")
    ELSE IF p.rows = 0 THEN Returned(fetch, "None")
    ELSE IF p.train = "raise" THEN Raising(Append(fetch, Call("train")), "PortError")
    ELSE Returned(Append(fetch, Call("train")), "model-2")

pipelines_run_training(pipeline, p) ==
    IF pipeline.training = None \/ ~pipeline.training.enabled
    THEN Returned(<<>>, "None")
    ELSE PipelinesFetchAndTrain(p, _parse_duration(pipeline.training.window))

\* Model construction in the task bodies: a remote model needs an endpoint, a
\* local one is loaded by ChronosAdapter's constructor.
InstantiateModel(pipeline, p) ==
    IF pipeline.model.type = "remote"
    THEN IF pipeline.model.endpoint = ""
         THEN Raising(<<>>, "ValueError")
         ELSE Returned(<<>>, "RemoteModelAdapter")
    ELSE IF p.loads
         THEN Returned(<<Call("load_model")>>, "ChronosAdapter")
         ELSE Raising(<<Call("load_model")>>, "ImportError")

Upper(action) ==
    CASE action = "forecast" -> "FORECAST"
      [] action = "anomaly" -> "ANOMALY"

\* asyncio.run(_execute()) in a task: its exception is raised again, otherwise
\* the task returns its message.
TaskResult(done, message) ==
    IF done.error # "" THEN done ELSE Returned(done.calls, message)

\* _run_pipeline_action answering a missing pipeline with an error.
run_pipeline_action_strict(pipeline, pipeline_name, action, p) ==
    IF pipeline = None
    THEN Raising(<<>>, "PipelineNotFound")
    ELSE TaskResult(Then(InstantiateModel(pipeline, p),
                         IF action = "forecast" THEN run_forecast(pipeline, p)
                         ELSE run_anomaly_check(pipeline, p)),
                    Upper(action) \o " Success: " \o pipeline_name)

\* tasks._run_pipeline_action; pipeline is what config_store.get_pipeline returned.
_run_pipeline_action(pipeline, pipeline_name, action, p) ==
    IF pipeline = None
    THEN Returned(<<>>, Upper(action) \o " Success: " \o pipeline_name)
    ELSE TaskResult(Then(InstantiateModel(pipeline, p),
                         IF action = "forecast" THEN run_forecast(pipeline, p)
                         ELSE run_anomaly_check(pipeline, p)),
                    Upper(action) \o " Success: " \o pipeline_name)

\* KafkaProducerAdapter.publish_message: failures of the producer's construction
\* and of produce are logged inside the adapter.
Publish(event_type, p) ==
    [op |-> "publish_message", event_type |-> event_type,
     delivered |-> p.kafka \in {"up", "flush raises"}]

\* build_kafka_message: str.format of a template value raises KeyError for a
\* placeholder the event's context does not hold.  status comes with the
\* completed and failed events, error with the failed event only.
BuildFails(template, event_type) ==
    \/ template = "{status}" /\ event_type = "training_started"
    \/ template = "{error}" /\ event_type \in {"training_started", "training_completed"}

\* One lifecycle event: the message is built and published, and flushed when the
\* task flushes after it.  flush raises what producer.flush raises.
PublishEvent(event_type, template, p, with_flush) ==
    IF BuildFails(template, event_type) THEN Raising(<<>>, "KeyError")
    ELSE IF ~with_flush THEN Returned(<<Publish(event_type, p)>>, "None")
    ELSE IF p.kafka = "flush raises"
    THEN Raising(<<Publish(event_type, p), Call("flush")>>, "KafkaException")
    ELSE Returned(<<Publish(event_type, p), Call("flush")>>, "None")

\* KafkaProducerAdapter.close: producer.flush(10.0) when a producer was created.
Close(p) ==
    IF p.kafka = "flush raises" THEN Raising(<<Call("close")>>, "KafkaException")
    ELSE Returned(<<Call("close")>>, "None")

Nothing == Returned(<<>>, "None")

\* except Exception: the handler runs when the body raised, then raise; an
\* exception of the handler takes the place of the body's.
Except(body, handler) ==
    IF body.error = "" THEN body
    ELSE Raising(body.calls \o handler.calls,
                 IF handler.error # "" THEN handler.error ELSE body.error)

\* finally: the clean-up runs in either case; its exception takes the place of
\* the outcome.
Finally(outcome, cleanup) ==
    IF cleanup.error # "" THEN Raising(outcome.calls \o cleanup.calls, cleanup.error)
    ELSE After(outcome.calls,
               [calls |-> cleanup.calls, error |-> outcome.error, ret |-> outcome.ret])

\* The completed event of a training that returned a model id.
Completed(trained, p, kafka_producer, template) ==
    IF kafka_producer /\ trained.error = "" /\ trained.ret # "None"
    THEN PublishEvent("training_completed", template, p, TRUE)
    ELSE Nothing

\* The except clause with the failure taken for a training that returned nothing.
training_failed_swallowed(outcome, p, kafka_producer, template) ==
    IF outcome.error = "" THEN outcome ELSE Returned(outcome.calls, "None")

\* The except clause reports a failure with the training_failed event.
training_failed(outcome, p, kafka_producer, template) ==
    Except(outcome,
           IF kafka_producer THEN PublishEvent("training_failed", template, p, TRUE)
           ELSE Nothing)

\* The try/except/finally around service.run_training in tasks.run_training_task:
\* the completed or failed event with a flush, then close.
TrainingOutcome(trained, p, kafka_producer, template) ==
    Finally(training_failed(Then(trained,
                                 Completed(trained, p, kafka_producer, template)),
                            p, kafka_producer, template),
            IF kafka_producer THEN Close(p) ELSE Nothing)

\* The body of tasks.run_training_task for a pipeline that was found.
TrainWithEvents(pipeline, p, kafka_producer, template) ==
    Then(IF kafka_producer THEN PublishEvent("training_started", template, p, FALSE)
         ELSE Nothing,
         Then(InstantiateModel(pipeline, p),
              TrainingOutcome(pipelines_run_training(pipeline, p), p, kafka_producer,
                              template)))

\* The template of the pipeline's events; "" stands for the default structure.
TemplateOf(pipeline) ==
    IF pipeline.training = None THEN ""
    ELSE pipeline.training.kafka_message_template

\* tasks.run_training_task; pipeline is what config_store.get_pipeline returned.
run_training_task(pipeline, pipeline_name, p) ==
    IF pipeline = None
    THEN Returned(<<>>, "Training Success: " \o pipeline_name)
    ELSE TaskResult(TrainWithEvents(pipeline, p,
                                    pipeline.training # None
                                        /\ pipeline.training.kafka_enabled,
                                    TemplateOf(pipeline)),
                    "Training Success: " \o pipeline_name)

\* main.run_inference_task
main_run_inference_task(pipeline, pipeline_name, p) ==
    IF pipeline = None
    THEN Returned(<<>>, "Success: " \o pipeline_name)
    ELSE TaskResult(Then(InstantiateModel(pipeline, p), run_pipeline(pipeline, p)),
                    "Success: " \o pipeline_name)

\* main.run_training_task: the store is a PrometheusAdapter and the model one of
\* the adapters, which have neither read_series nor train.
main_run_training_task(pipeline, pipeline_name, p) ==
    IF pipeline = None
    THEN Returned(<<>>, "Training Success: " \o pipeline_name)
    ELSE TaskResult(Then(InstantiateModel(pipeline, p),
                         run_training(pipeline, p, FALSE, FALSE)),
                    "Training Success: " \o pipeline_name)

\* main.execute_inference: the pipeline arrives in the request.
execute_inference(pipeline, p) ==
    TaskResult(Then(InstantiateModel(pipeline, p), run_pipeline(pipeline, p)), "success")

\* main.execute_training
execute_training(pipeline, p) ==
    TaskResult(Then(InstantiateModel(pipeline, p), run_training(pipeline, p, FALSE, FALSE)),
               "success")

\* YamlConfigStore.get_pipeline: self._pipelines.get(name).
YamlGetPipeline(pipelines, name) ==
    IF name \in DOMAIN pipelines THEN pipelines[name] ELSE None

\* DjangoConfigStore._to_dataclass reads these attributes of the row.
DataclassAttributes ==
    {"name", "enabled", "step", "context_window", "prediction_horizon",
     "forecast_schedule", "anomaly_schedule", "model_config", "training_config"}

_to_dataclass(instance) ==
    IF DataclassAttributes \subseteq DOMAIN instance
    THEN [err |-> "none",
          value |-> [name |-> instance.name, step |-> instance.step,
                     context_window |-> instance.context_window,
                     prediction_horizon |-> instance.prediction_horizon,
                     model |-> instance.model_config,
                     training |-> instance.training_config]]
    ELSE [err |-> "AttributeError", value |-> None]

\* DjangoConfigStore.get_pipeline: a missing row and any other exception give None.
DjangoGetPipeline(table, name) ==
    IF name \notin DOMAIN table \/ table[name] = NoRow
    THEN None
    ELSE _to_dataclass(table[name]).value

\* The stored pipeline's configuration, over the values the cycles branch on.
ModelConfigs ==
    {[type |-> "local", endpoint |-> ""],
     [type |-> "remote", endpoint |-> ""],
     [type |-> "remote", endpoint |-> "http://model:8080"]}

Window30d == <<"3", "0", "d">>

\* kafka_message_template by the placeholders its values use: "" is the empty
\* dict, for which the default message structure is built.
MessageTemplates == {"", "{event_type}", "{status}", "{error}"}

Window90m == <<"9", "0", "m">>

\* The training blocks: absent, or present with the default window and any flags,
\* or enabled with a window in minutes and no events.
TrainingConfigs ==
    {None} \cup [enabled : BOOLEAN, window : {Window30d}, kafka_enabled : BOOLEAN,
                 kafka_message_template : MessageTemplates]
           \cup {[enabled |-> TRUE, window |-> Window90m, kafka_enabled |-> FALSE,
                  kafka_message_template |-> ""]}

ContextWindows == {<<"1", "h">>, <<"h">>}

HorizonAndStep ==
    {[prediction_horizon |-> <<"1", "5", "m">>, step |-> <<"1", "m">>],
     [prediction_horizon |-> <<"1", "5", "m">>, step |-> <<"0", "m">>],
     [prediction_horizon |-> <<"3", "0", "s">>, step |-> <<"1", "m">>],
     [prediction_horizon |-> <<"x", "m">>, step |-> <<"1", "m">>]}

StoredName == "a"

\* anomaly.technique of the stored pipeline; no code reads it.
AnomalyTechniques == {"z_score"}

PipelineConfigs ==
    {[name |-> StoredName, model |-> m, context_window |-> w,
      prediction_horizon |-> hs.prediction_horizon, step |-> hs.step, training |-> t,
      anomaly |-> [technique |-> a]] :
        m \in ModelConfigs, w \in ContextWindows, hs \in HorizonAndStep,
        t \in TrainingConfigs, a \in AnomalyTechniques}

MaxRows == 2

\* How the ports answer during a cycle: the fetch fails or returns rows, predict
\* returns rows, nothing or fails, and so on.
PortAnswers ==
    {p \in [fetchFails : BOOLEAN, rows : 0..MaxRows, predict : {"rows", "empty", "raise"},
            writeFails : BOOLEAN, train : {"id", "raise"}, loads : BOOLEAN,
            kafka : {"up", "construct raises", "produce raises", "flush raises"}] :
        p.fetchFails => p.rows = 0}

\* Answers that cannot matter to the stored pipeline are held at one value.
Relevant(pipeline, p) ==
    /\ pipeline.model.type # "local" => p.loads
    /\ (pipeline.training = None \/ ~pipeline.training.kafka_enabled)
           => p.kafka = "up"
    /\ (pipeline.training # None /\ ~pipeline.training.kafka_enabled)
           => pipeline.training.kafka_message_template = ""
    /\ (pipeline.training # None /\ pipeline.training.kafka_message_template # "")
           => p.kafka = "up"
    /\ (pipeline.training # None /\ ~pipeline.training.enabled)
           => ~pipeline.training.kafka_enabled

\* The names a task is triggered with: the stored pipeline and one never stored.
TaskNames == {StoredName, "ghost"}

\* The row of the stored pipeline in the Pipeline table.
SeedRow ==
    [name |-> StoredName, enabled |-> TRUE,
     forecast_enabled |-> TRUE, forecast_schedule |-> Every5Min,
     anomaly_enabled |-> TRUE, anomaly_schedule |-> Every5Min,
     training_enabled |-> FALSE, training_schedule |-> HourlyWide]

\* What the variable run keeps of a call: who was called, for which pipeline,
\* the port calls made, the exception raised and the value returned.
RunOf(entry, name, r) ==
    [entry |-> entry, name |-> name, calls |-> r.calls, error |-> r.error, ret |-> r.ret]

\* tasks.run_forecast_task
RunForecastTask(name) ==
    /\ run' = RunOf("run_forecast_task", name,
                    _run_pipeline_action(DjangoGetPipeline(db, name), name, "forecast",
                                         ports))
    /\ UNCHANGED <<yaml, ports, schedVars, concVars, haVars, durVars, codecVars, forecastVars>>

\* tasks.run_anomaly_task
RunAnomalyTask(name) ==
    /\ run' = RunOf("run_anomaly_task", name,
                    _run_pipeline_action(DjangoGetPipeline(db, name), name, "anomaly",
                                         ports))
    /\ UNCHANGED <<yaml, ports, schedVars, concVars, haVars, durVars, codecVars, forecastVars>>

RunTrainingTask(name) ==
    /\ run' = RunOf("run_training_task", name,
                    run_training_task(DjangoGetPipeline(db, name), name, ports))
    /\ UNCHANGED <<yaml, ports, schedVars, concVars, haVars, durVars, codecVars, forecastVars>>

MainRunInferenceTask(name) ==
    /\ run' = RunOf("main.run_inference_task", name,
                    main_run_inference_task(YamlGetPipeline(yaml, name), name, ports))
    /\ UNCHANGED <<yaml, ports, schedVars, concVars, haVars, durVars, codecVars, forecastVars>>

MainRunTrainingTask(name) ==
    /\ run' = RunOf("main.run_training_task", name,
                    main_run_training_task(YamlGetPipeline(yaml, name), name, ports))
    /\ UNCHANGED <<yaml, ports, schedVars, concVars, haVars, durVars, codecVars, forecastVars>>

ExecuteInference ==
    /\ run' = RunOf("execute_inference", StoredName,
                    execute_inference(yaml[StoredName], ports))
    /\ UNCHANGED <<yaml, ports, schedVars, concVars, haVars, durVars, codecVars, forecastVars>>

ExecuteTraining ==
    /\ run' = RunOf("execute_training", StoredName,
                    execute_training(yaml[StoredName], ports))
    /\ UNCHANGED <<yaml, ports, schedVars, concVars, haVars, durVars, codecVars, forecastVars>>

\* The loops called on their own with injected ports, as tests/services does.
ServiceGenerateForecast ==
    /\ run' = RunOf("generate_forecast", StoredName,
                    generate_forecast(yaml[StoredName], ports))
    /\ UNCHANGED <<yaml, ports, schedVars, concVars, haVars, durVars, codecVars, forecastVars>>

ServiceRunForecast ==
    /\ run' = RunOf("run_forecast", StoredName, run_forecast(yaml[StoredName], ports))
    /\ UNCHANGED <<yaml, ports, schedVars, concVars, haVars, durVars, codecVars, forecastVars>>

ServiceRunAnomalyCheck ==
    /\ run' = RunOf("run_anomaly_check", StoredName,
                    run_anomaly_check(yaml[StoredName], ports))
    /\ UNCHANGED <<yaml, ports, schedVars, concVars, haVars, durVars, codecVars, forecastVars>>

ServiceRunPipeline ==
    /\ run' = RunOf("run_pipeline", StoredName, run_pipeline(yaml[StoredName], ports))
    /\ UNCHANGED <<yaml, ports, schedVars, concVars, haVars, durVars, codecVars, forecastVars>>

ServiceRunTraining ==
    /\ run' = RunOf("run_training", StoredName,
                    run_training(yaml[StoredName], ports, TRUE, TRUE))
    /\ UNCHANGED <<yaml, ports, schedVars, concVars, haVars, durVars, codecVars, forecastVars>>

\* tasks.run_training_task with a configuration store that returns the pipeline.
RunTrainingTaskFound ==
    /\ run' = RunOf("run_training_task (found)", StoredName,
                    run_training_task(yaml[StoredName], StoredName, ports))
    /\ UNCHANGED <<yaml, ports, schedVars, concVars, haVars, durVars, codecVars, forecastVars>>

InitTask ==
    /\ \E pipeline \in PipelineConfigs : \E p \in PortAnswers :
          /\ Relevant(pipeline, p)
          /\ yaml = [n \in {StoredName} |-> pipeline]
          /\ ports = p
    /\ run = NotRun
    /\ db = [n \in PipelineNames |-> IF n = StoredName THEN SeedRow ELSE NoRow]
    /\ redis = sync_pipeline_to_redbeat(<<>>, SeedRow, {})
    /\ last = [op |-> "none", name |-> "", unchanged |-> FALSE, had |-> {}, down |-> {}]
    /\ procs = <<>>
    /\ base = <<>>
    /\ HAIdle
    /\ DurIdle
    /\ CodecIdle
    /\ ForecastIdle

NextTask ==
    \/ \E name \in TaskNames : RunForecastTask(name)
    \/ \E name \in TaskNames : RunAnomalyTask(name)
    \/ \E name \in TaskNames : RunTrainingTask(name)
    \/ \E name \in TaskNames : MainRunInferenceTask(name)
    \/ \E name \in TaskNames : MainRunTrainingTask(name)
    \/ ExecuteInference
    \/ ExecuteTraining
    \/ ServiceGenerateForecast
    \/ ServiceRunForecast
    \/ ServiceRunPipeline
    \/ ServiceRunTraining
    \/ RunTrainingTaskFound
    \/ ServiceRunAnomalyCheck

SpecTask == InitTask /\ [][NextTask]_vars

HasCall(op) == \E i \in 1..Len(run.calls) : run.calls[i].op = op

\* The tasks that resolve the pipeline by name, each with the store it asks.
DjangoTasks == {"run_forecast_task", "run_anomaly_task", "run_training_task"}

YamlTasks == {"main.run_inference_task", "main.run_training_task"}

StoreContains(entry, name) ==
    IF entry \in DjangoTasks
    THEN name \in DOMAIN db /\ db[name] # NoRow
    ELSE name \in DOMAIN yaml

\* C7: a forecast, anomaly or training task triggered with a name that its
\* configuration store does not contain raises nothing and calls neither the
\* time-series store, the model nor the event publisher.
C7_NotFoundIsNoOp ==
    (run.entry \in DjangoTasks \cup YamlTasks /\ ~StoreContains(run.entry, run.name))
        => (run.error = "" /\ run.calls = <<>>)

\* The training task triggered for a name never stored, while the stored
\* pipeline has training with events enabled and would have published.
C7_Witness ==
    /\ run.entry = "run_training_task" /\ run.name = "ghost"
    /\ run.error = "" /\ run.calls = <<>>
    /\ run.ret = "Training Success: ghost"
    /\ yaml[StoredName].training # None /\ yaml[StoredName].training.kafka_enabled

\* The entries that run the forecast cycle on a pipeline in hand.
ForecastEntries ==
    {"generate_forecast", "run_forecast", "run_pipeline", "execute_inference",
     "main.run_inference_task"}

\* C8: when the fetch for the context window returns no rows the cycle ends
\* without error, generate_forecast returns an empty result, and predict and
\* write are each called zero times.
C8_EmptyFetchEndsCycle ==
    (run.entry \in ForecastEntries /\ HasCall("query_range")
        /\ ~ports.fetchFails /\ ports.rows = 0)
        => /\ run.error = ""
           /\ ~HasCall("predict") /\ ~HasCall("write")
           /\ run.entry = "generate_forecast" => run.ret = "empty"

\* run_forecast on an empty fetch, for a pipeline whose step would divide by
\* zero and a model that would have answered with rows.
C8_Witness ==
    /\ run.entry = "run_forecast"
    /\ run.calls = <<Call("query_range")>> /\ run.error = "" /\ run.ret = "None"
    /\ ports.rows = 0 /\ ~ports.fetchFails /\ ports.predict = "rows"
    /\ yaml[StoredName].step = <<"0", "m">>

\* The entries that run core TrainingLoop.run_training on a pipeline in hand.
TrainingEntries == {"run_training", "execute_training", "main.run_training_task"}

\* C9: when pipeline.training is absent or disabled run_training returns None
\* and neither the store fetch nor the model's train is called.
C9_TrainingDisabledNoEffects ==
    (run.entry \in TrainingEntries /\ run.name = StoredName
        /\ (yaml[StoredName].training = None \/ ~yaml[StoredName].training.enabled))
        => /\ ~HasCall("read_series") /\ ~HasCall("query_range") /\ ~HasCall("train")
           /\ run.entry = "run_training" => (run.calls = <<>> /\ run.ret = "None"
                                               /\ run.error = "")

\* run_training for a pipeline whose training block is present and disabled,
\* with ports that would have returned rows and a model id.
C9_Witness ==
    /\ run.entry = "run_training"
    /\ yaml[StoredName].training # None /\ ~yaml[StoredName].training.enabled
    /\ ports.rows > 0 /\ ports.train = "id"
    /\ run.calls = <<>> /\ run.ret = "None" /\ run.error = ""

\* C13: when the fetched context holds exactly one row the forecast cycle fails
\* with an error, whatever the model type; it returns no forecast spaced at a
\* default cadence and writes nothing.  Stated for a model that has values to
\* answer with, where the spacing of the future timestamps is needed.
C13_OneRowIsInsufficient ==
    (run.entry \in ForecastEntries /\ HasCall("query_range")
        /\ ~ports.fetchFails /\ ports.rows = 1 /\ ports.predict = "rows")
        => /\ run.error # ""
           /\ run.ret # "forecast at 1m"
           /\ ~HasCall("write")

\* C14: every request handed to the model carries a prediction_length of at
\* least 1, the truncated quotient of horizon and step (15 for 15m over 1m); a
\* quotient below 1 fails the cycle before the model is called.
C14_PredictionLengthAtLeastOne ==
    run.entry \in ForecastEntries
        => \A i \in 1..Len(run.calls) :
              run.calls[i].op = "predict"
                  => /\ run.calls[i].prediction_length >= 1
                     /\ (yaml[StoredName].prediction_horizon = <<"1", "5", "m">>
                             /\ yaml[StoredName].step = <<"1", "m">>)
                            => run.calls[i].prediction_length = 15

\* The entries that run a whole forecast cycle: fetch, predict, write.
CycleEntries ==
    {"run_forecast", "run_pipeline", "execute_inference", "main.run_inference_task",
     "run_forecast_task"}

WriteCalls == {j \in 1..Len(run.calls) : run.calls[j].op = "write"}

\* C15: in one forecast cycle write is called exactly once, directly after
\* predict returned, when the model's result has rows, and not at all when the
\* result is empty.
C15_WriteOnceAfterPredict ==
    run.entry \in CycleEntries
        => \A i \in 1..Len(run.calls) :
              run.calls[i].op = "predict"
                  => /\ run.calls[i].result = "rows"
                            => (WriteCalls = {i + 1} /\ Len(run.calls) = i + 1)
                     /\ run.calls[i].result = "empty" => WriteCalls = {}

\* run_forecast with a model that answered with rows: fetch, predict, one write.
C15_Witness ==
    /\ run.entry = "run_forecast" /\ run.error = ""
    /\ run.calls = <<Call("query_range"), PredictCall(15, "rows"), Call("write")>>

\* The calls that run a training with a model that can train: the core loop with
\* injected ports, and the training task for a pipeline its store returned.
TrainingRuns == {"run_training", "run_training_task (found)"}

\* C16: when the model's train fails, run_training raises to its caller and the
\* training task ends with an exception; it returns neither None nor success.
C16_TrainFailurePropagates ==
    (run.entry \in TrainingRuns /\ HasCall("train") /\ ports.train = "raise")
        => (run.error # "" /\ run.ret = "")

\* The training task with events enabled and a model whose train raises: the
\* failed event is published and the task raises the training error.
C16_Witness ==
    /\ run.entry = "run_training_task (found)"
    /\ HasCall("train") /\ ports.train = "raise"
    /\ \E i \in 1..Len(run.calls) :
          run.calls[i].op = "publish_message"
              /\ run.calls[i].event_type = "training_failed"
    /\ run.error = "PortError"

\* The training cycle of the task without any event publisher.
TrainingAlone ==
    Then(InstantiateModel(yaml[StoredName], ports),
         pipelines_run_training(yaml[StoredName], ports))

\* C17: a failure of the event publisher at any point of the training task
\* leaves the outcome of the training cycle as it is: the task succeeds exactly
\* when training succeeds, and a failing training raises the training error.
C17_PublisherNeverChangesOutcome ==
    run.entry = "run_training_task (found)" => run.error = TrainingAlone.error

\* What a cycle raises for a configuration that is in error: the exceptions of
\* the duration parse and of the endpoint check.
ConfigurationErrors == {"ValueError", "IndexError"}

\* C18: a cycle that ends with a configuration error (a context_window,
\* prediction_horizon or step that does not parse, a remote model without
\* endpoint) has called neither the store's fetch or write nor the model's predict.
C18_ConfigurationErrorBeforeIO ==
    (run.entry \in ForecastEntries \cup CycleEntries
        /\ run.error \in ConfigurationErrors)
        => (~HasCall("query_range") /\ ~HasCall("write") /\ ~HasCall("predict"))

\* C19: every pipeline that was created has schedule fields that parse under
\* the cron grammar; one with a field that does not parse is rejected at
\* creation.  Stated for the rows of the Pipeline table and their three schedules.
C19_CreatedPipelinesParse ==
    \A n \in PipelineNames :
        db[n] # NoRow
            => /\ ParsedCron[db[n].forecast_schedule] # None
               /\ ParsedCron[db[n].anomaly_schedule] # None
               /\ ParsedCron[db[n].training_schedule] # None

\* C20: for a pipeline with technique z_score the anomaly check scores each
\* aligned timestamp and flags it; stated as far as the cycle's calls show it:
\* with actuals in the store and a model that forecasts, the check has fetched
\* them and written the scores.
C20_ZScoreScoresWritten ==
    (run.entry = "run_anomaly_check" /\ run.error = ""
        /\ yaml[StoredName].anomaly.technique = "z_score"
        /\ ~ports.fetchFails /\ ports.rows >= 2 /\ ports.predict = "rows")
        => (HasCall("query_range") /\ HasCall("write"))

\* C30: a task triggered for a pipeline that its configuration store holds
\* either runs the cycle or ends in failure.  Stated for the forecast tasks,
\* whose cycle always raises or calls a port: such a task does not return with
\* no call made.
C30_StoredPipelineRunsOrFails ==
    (run.entry \in {"run_forecast_task", "main.run_inference_task"}
        /\ StoreContains(run.entry, run.name))
        => (run.error # "" \/ run.calls # <<>>)

\* The positions in the run's calls at which an event of one of the types was
\* published.
EventsAt(types) ==
    {i \in 1..Len(run.calls) :
        run.calls[i].op = "publish_message" /\ run.calls[i].event_type \in types}

TerminalEvents == {"training_completed", "training_failed"}

\* C28: in a run of the training task with event publishing enabled every
\* training_started is followed by exactly one training_completed or
\* training_failed, and no such event comes without a training_started before
\* it.  Stated for a publisher that works, so that only the task's own flow counts.
C28_EventsPaired ==
    (run.entry = "run_training_task (found)"
        /\ yaml[StoredName].training # None
        /\ yaml[StoredName].training.kafka_enabled
        /\ yaml[StoredName].training.kafka_message_template = ""
        /\ ports.kafka = "up")
        => /\ Cardinality(EventsAt({"training_started"})) = 1
           /\ Cardinality(EventsAt(TerminalEvents)) = 1
           /\ \A i \in EventsAt(TerminalEvents) :
                 \E j \in EventsAt({"training_started"}) : j < i

\* C24: for a training window that the duration parser accepts, run_training
\* fetches over the range that starts parseDuration(window) seconds before now.
C24_TrainingWindowIsParsedDuration ==
    (run.entry = "run_training" /\ yaml[StoredName].training # None
        /\ IsDigitsThenUnit(yaml[StoredName].training.window))
        => \A i \in 1..Len(run.calls) :
              run.calls[i].op = "read_series"
                  => run.calls[i].window_seconds
                         = _parse_duration(yaml[StoredName].training.window).value

\* The crons of the row parse, so that what the row requires of a kind's key is
\* decided by its flags alone.
SchedulesParse(row) == \A k \in Kinds : ParsedCron[KindSchedule(row, k)] # None

\* The store holds for pipeline n exactly what the row requires.
MatchesRow(r, row) ==
    \A k \in Kinds :
        LET key == RedBeatKey(row.name, k) IN
        IF EntryWanted(row, k)
        THEN /\ key \in DOMAIN r
             /\ r[key].schedule = ParsedCron[KindSchedule(row, k)]
        ELSE key \notin DOMAIN r

\* C26: when concurrent saves of one pipeline and the syncs they started have all
\* completed, the schedule entries are the ones the stored row requires.
C26_ConvergesToStoredRow ==
    (AllDone /\ AllSaves /\ SchedulesParse(db[ConcName])
        /\ \A p \in ProcIds : SchedulesParse(procs[p].row))
        => MatchesRow(redis, db[ConcName])

\* C27: when a deletion and a concurrent save of one pipeline have completed with
\* their syncs and the row is gone, none of the pipeline's keys is in the store.
C27_NoOrphanAfterDelete ==
    (AllDone /\ db[ConcName] = NoRow
        /\ {procs[p].op : p \in ProcIds} = {"delete", "save"})
        => KindsHeld(redis, ConcName) = {}

(***************************************************************************)
(* SpecFleet: saves, disables and deletes of two pipelines whose names     *)
(* share a prefix, scheduler store reachable.                              *)
(***************************************************************************)
FleetNames == {"a", "a_forecast"}

FleetRows(n) ==
    [name : {n}, enabled : BOOLEAN,
     forecast_enabled : BOOLEAN, forecast_schedule : {Every5Min},
     anomaly_enabled : BOOLEAN, anomaly_schedule : {HourlyWide},
     training_enabled : BOOLEAN, training_schedule : {Every5Min}]

InitFleet ==
    /\ db = [n \in FleetNames |-> NoRow]
    /\ redis = <<>>
    /\ last = [op |-> "none", name |-> "", unchanged |-> FALSE, had |-> {}, down |-> {}]
    /\ procs = <<>>
    /\ base = <<>>
    /\ HAIdle
    /\ DurIdle
    /\ CodecIdle
    /\ ForecastIdle
    /\ TaskIdle

NextFleet ==
    \/ \E n \in FleetNames : \E row \in FleetRows(n) : SavePipeline(n, row, {})
    \/ \E n \in FleetNames : DisablePipeline(n, {})
    \/ \E n \in FleetNames : DeletePipeline(n, {})

SpecFleet == InitFleet /\ [][NextFleet]_vars

\* The schedule entries of pipeline n: the keys whose entry triggers a task for n.
EntriesOf(r, n) ==
    [k \in {x \in DOMAIN r : r[x].args = <<n>>} |-> r[k]]

KeysInjective ==
    \A n1 \in FleetNames, n2 \in FleetNames : \A k1 \in Kinds, k2 \in Kinds :
        RedBeatKey(n1, k1) = RedBeatKey(n2, k2) => (n1 = n2 /\ k1 = k2)

\* C25: two distinct (pipeline name, task kind) pairs never have the same schedule
\* key, and a sync or a removal for one pipeline leaves the schedule entries of
\* every other pipeline as they were.
C25_KeysInjectiveAndFrame ==
    [][/\ KeysInjective
       /\ \A n \in FleetNames :
             n # last'.name => EntriesOf(redis', n) = EntriesOf(redis, n)]_vars

C25_Witness ==
    /\ last.op = "delete" /\ last.name = "a" /\ last.had = Kinds
    /\ KindsHeld(redis, "a_forecast") = Kinds
    /\ EntriesOf(redis, "a") = <<>>

(***************************************************************************)
(* SpecOutage: saves, disables and deletes of one pipeline while the store *)
(* call of at most one task kind fails.                                    *)
(***************************************************************************)
OutageRows(n) ==
    [name : {n}, enabled : BOOLEAN,
     forecast_enabled : BOOLEAN, forecast_schedule : {Every5Min},
     anomaly_enabled : BOOLEAN, anomaly_schedule : {HourlyWide, BadMinute},
     training_enabled : BOOLEAN, training_schedule : {Every5Min}]

\* The kinds whose store call raises during one handler: none, or one.
FailSets == {{}} \cup {{k} : k \in Kinds}

NextOutage ==
    \/ \E n \in PipelineNames : \E row \in OutageRows(n) : \E down \in FailSets :
           SavePipeline(n, row, down)
    \/ \E n \in PipelineNames : \E down \in FailSets : DisablePipeline(n, down)
    \/ \E n \in PipelineNames : \E down \in FailSets : DeletePipeline(n, down)

SpecOutage == Init /\ [][NextOutage]_vars

\* C29: when the store call of one kind fails during a sync, every other kind's
\* key is in the state that kind's flags and cron expression require: present
\* with the parsed cron when the pipeline and the kind are enabled and the
\* expression parses, absent otherwise.
C29_FailureIsolatedPerKind ==
    (last.op \in SyncOps /\ last.down # {}) =>
        \A k \in Kinds \ last.down :
            LET key == RedBeatKey(last.name, k) IN
            IF EntryWanted(db[last.name], k)
            THEN /\ key \in DOMAIN redis
                 /\ redis[key].schedule = ParsedCron[KindSchedule(db[last.name], k)]
            ELSE key \notin DOMAIN redis

(***************************************************************************)
(* SpecCodec: the series identity the Prometheus adapter builds on the     *)
(* read path and takes apart again on the write path.                      *)
(***************************************************************************)

\* Code points of the characters used, for Python's ordering of strings.
CodePoint(c) ==
    CASE c = " " -> 32
      [] c = "\"" -> 34
      [] c = "," -> 44
      [] c = "=" -> 61
      [] c = "_" -> 95
      [] c = "a" -> 97
      [] c = "c" -> 99
      [] c = "e" -> 101
      [] c = "i" -> 105
      [] c = "j" -> 106
      [] c = "k" -> 107
      [] c = "m" -> 109
      [] c = "n" -> 110
      [] c = "p" -> 112
      [] c = "r" -> 114
      [] c = "t" -> 116
      [] c = "u" -> 117
      [] c = "{" -> 123
      [] c = "}" -> 125

\* Python's < on strings.
RECURSIVE StrLess(_, _)
StrLess(a, b) ==
    IF a = <<>> THEN b # <<>>
    ELSE IF b = <<>> THEN FALSE
    ELSE IF Head(a) = Head(b) THEN StrLess(Tail(a), Tail(b))
    ELSE CodePoint(Head(a)) < CodePoint(Head(b))

\* sorted(metric.items()): the keys of a dict in ascending order.
RECURSIVE SortedKeys(_)
SortedKeys(keys) ==
    IF keys = {} THEN <<>>
    ELSE LET k == CHOOSE k \in keys : \A o \in keys \ {k} : StrLess(k, o)
         IN  <<k>> \o SortedKeys(keys \ {k})

\* sep.join(parts)
RECURSIVE Join(_, _)
Join(sep, parts) ==
    IF parts = <<>> THEN <<>>
    ELSE IF Len(parts) = 1 THEN parts[1]
    ELSE parts[1] \o sep \o Join(sep, Tail(parts))

\* text.find(c) + 1: the first position of the character, 0 when absent.
Find(text, c) ==
    IF \E i \in 1..Len(text) : text[i] = c
    THEN CHOOSE i \in 1..Len(text) :
             text[i] = c /\ \A j \in 1..(i - 1) : text[j] # c
    ELSE 0

\* text.split(c)
RECURSIVE SplitAt(_, _)
SplitAt(text, c) ==
    IF Find(text, c) = 0 THEN <<text>>
    ELSE <<SubSeq(text, 1, Find(text, c) - 1)>>
             \o SplitAt(SubSeq(text, Find(text, c) + 1, Len(text)), c)

\* text.split(c, 1)
SplitOnce(text, c) ==
    IF Find(text, c) = 0 THEN <<text>>
    ELSE <<SubSeq(text, 1, Find(text, c) - 1),
           SubSeq(text, Find(text, c) + 1, Len(text))>>

\* text.strip('"')
RECURSIVE StripQuotes(_)
StripQuotes(text) ==
    IF text # <<>> /\ Head(text) = "\"" THEN StripQuotes(Tail(text))
    ELSE IF text # <<>> /\ text[Len(text)] = "\""
         THEN StripQuotes(SubSeq(text, 1, Len(text) - 1))
    ELSE text

\* text.strip()
Strip(text) == StripRight(StripLeft(text))

NameKey == <<"_", "_", "n", "a", "m", "e", "_", "_">>
DefaultName == <<"m", "e", "t", "r", "i", "c">>

\* metric.pop("__name__", "metric"): the name, and the dict that is left.
PoppedName(metric) ==
    IF NameKey \in DOMAIN metric THEN metric[NameKey] ELSE DefaultName
PoppedLabels(metric) == [k \in DOMAIN metric \ {NameKey} |-> metric[k]]

\* labels_str of query_range: k="v" for each label in key order, joined by commas.
labels_str(labels) ==
    Join(<<",">>, [i \in 1..Cardinality(DOMAIN labels) |->
                      SortedKeys(DOMAIN labels)[i] \o <<"=", "\"">>
                          \o labels[SortedKeys(DOMAIN labels)[i]] \o <<"\"">>])

\* unique_id of query_range: name{labels_str}, or the bare name without labels.
unique_id(name, labels) ==
    IF labels_str(labels) # <<>>
    THEN name \o <<"{">> \o labels_str(labels) \o <<"}">>
    ELSE name

\* labels[k.strip()] = v.strip().strip('"')
SetLabel(labels, kv) ==
    (Strip(kv[1]) :> StripQuotes(Strip(kv[2]))) @@ labels

\* The loop of write over labels_part.split(","): pairs without "=" are skipped.
RECURSIVE LabelsOfPairs(_, _)
LabelsOfPairs(pairs, labels) ==
    IF pairs = <<>> THEN labels
    ELSE LabelsOfPairs(Tail(pairs),
                       IF Find(Head(pairs), "=") > 0
                       THEN SetLabel(labels, SplitOnce(Head(pairs), "="))
                       ELSE labels)

\* The parse of raw_id in write: [metric_name, labels].
ParseRawId(raw_id) ==
    IF Find(raw_id, "{") > 0 /\ raw_id[Len(raw_id)] = "}"
    THEN [metric_name |-> SplitOnce(SubSeq(raw_id, 1, Len(raw_id) - 1), "{")[1],
          labels |-> LabelsOfPairs(
                         SplitAt(SplitOnce(SubSeq(raw_id, 1, Len(raw_id) - 1), "{")[2],
                               ","),
                         <<>>)]
    ELSE [metric_name |-> raw_id, labels |-> <<>>]

MaxValueLen == 2

ValueChars == {"a", ",", "\"", "=", " "}

RECURSIVE StringsUpTo(_, _)
StringsUpTo(chars, n) ==
    IF n = 0 THEN {<<>>}
    ELSE StringsUpTo(chars, n - 1)
             \cup {<<c>> \o t : c \in chars, t \in StringsUpTo(chars, n - 1)}

LabelValues == StringsUpTo(ValueChars, MaxValueLen)
LabelKeys == {<<"j">>, <<"k">>}
MetricNames == {<<"u", "p">>}

\* The metric dicts of a query response: labels, with or without __name__.
Metrics ==
    UNION {[ks -> LabelValues] : ks \in SUBSET LabelKeys}
    \cup UNION {{(NameKey :> n) @@ l : n \in MetricNames, l \in [ks -> LabelValues]}
                    : ks \in SUBSET LabelKeys}

\* query_range gives the series of the response its unique_id.
QueryRangeEncodes ==
    /\ codec.stage = "metric"
    /\ codec' = [codec EXCEPT !.stage = "read",
                              !.name = PoppedName(codec.metric),
                              !.labels = PoppedLabels(codec.metric),
                              !.unique_id = unique_id(PoppedName(codec.metric),
                                                      PoppedLabels(codec.metric))]
    /\ UNCHANGED <<schedVars, concVars, haVars, durVars, taskVars, forecastVars>>

\* write takes the unique_id of a row apart into a metric name and attributes.
WriteDecodes ==
    /\ codec.stage = "read"
    /\ codec' = [codec EXCEPT !.stage = "written",
                              !.metric_name = ParseRawId(codec.unique_id).metric_name,
                              !.attributes = ParseRawId(codec.unique_id).labels]
    /\ UNCHANGED <<schedVars, concVars, haVars, durVars, taskVars, forecastVars>>

InitCodec ==
    /\ \E metric \in Metrics :
          codec = [stage |-> "metric", metric |-> metric, name |-> <<>>,
                   labels |-> <<>>, unique_id |-> <<>>, metric_name |-> <<>>,
                   attributes |-> <<>>]
    /\ db = [n \in PipelineNames |-> NoRow]
    /\ redis = <<>>
    /\ last = [op |-> "none", name |-> "", unchanged |-> FALSE, had |-> {}, down |-> {}]
    /\ procs = <<>>
    /\ base = <<>>
    /\ HAIdle
    /\ DurIdle
    /\ TaskIdle
    /\ ForecastIdle

NextCodec ==
    \/ QueryRangeEncodes
    \/ WriteDecodes

SpecCodec == InitCodec /\ [][NextCodec]_vars

\* C12: decoding the identifier the read path encoded gives back the same name
\* and the same label map, for every name and every label map.
C12_CodecRoundTrip ==
    codec.stage = "written"
        => /\ codec.metric_name = codec.name
           /\ codec.attributes = codec.labels

(***************************************************************************)
(* SpecForecast: one forecast cycle followed row by row.  The fetch has    *)
(* returned the context rows, the model has answered; the adapter dates    *)
(* the forecast, the loop turns it into output points and the store adapter *)
(* takes their identifiers apart.  Times are seconds.                      *)
(***************************************************************************)
MaxContextTick == 2
MaxAnswer == 2
MaxRuns == 2

PipelineStep == <<"1", "m">>
Horizons == {<<"1", "m">>, <<"2", "m">>}
ForecastPipelineName == <<"a">>
MetricPrefix == <<"o", "a", "_">>
Queries == {<<"u", "p">>, <<"u", "p", " ", "{", "j", "=", "\"", "x", "\"", "}">>}

\* The elements of a set of numbers in ascending order.
RECURSIVE Ascending(_)
Ascending(S) ==
    IF S = {} THEN <<>>
    ELSE LET m == CHOOSE m \in S : \A o \in S : m <= o
         IN  <<m>> \o Ascending(S \ {m})

\* The rows query_range builds for one series of the response: one row per
\* sample, at the steps where the series has a sample.
SeriesFrame(id, steps, step_seconds) ==
    [i \in 1..Cardinality(steps) |->
        [unique_id |-> id, ds |-> Ascending(steps)[i] * step_seconds]]

SampleSteps == SUBSET (0..MaxContextTick) \ {{}}

\* The frames query_range returns: no series, one series, or two concatenated.
Contexts ==
    LET step_seconds == _parse_duration(PipelineStep).value IN
    {<<>>}
    \cup {SeriesFrame("s1", S, step_seconds) : S \in SampleSteps}
    \cup {SeriesFrame("s1", S, step_seconds) \o SeriesFrame("s2", T, step_seconds) :
              S \in SampleSteps, T \in SampleSteps}

Level01 == <<"0", ".", "1">>
Level05 == <<"0", ".", "5">>
Level09 == <<"0", ".", "9">>
Level095 == <<"0", ".", "9", "5">>
Level099 == <<"0", ".", "9", "9">>

\* ForecastRequest.quantiles as generate_forecast sets it.
RequestQuantiles == <<Level01, Level05, Level09, Level095, Level099>>

\* The body of the remote endpoint's answer: "mean" of some length and a
\* "quantiles" dict with a list of that length per level.
RemoteAnswers ==
    [length : 0..MaxAnswer, levels : {<<>>, <<Level05>>, <<Level01, Level09>>}]

DsColumn == <<"d", "s">>
IdColumn == <<"u", "n", "i", "q", "u", "e", "_", "i", "d">>
MeanColumn == <<"m", "e", "a", "n">>
QuantileColumn(level) == <<"q", "_">> \o level

\* The value the model gives column c at row i.
ModelValue(c, i) == 100 * c + i

EmptyFrame == [error |-> "", ds |-> <<>>, columns |-> <<>>, values |-> <<>>]

\* pd.DataFrame({"ds": ..., "unique_id": ..., "mean": ...}) followed by one
\* q_<level> column per level.
ResultFrame(dates, levels) ==
    [error |-> "",
     ds |-> dates,
     columns |-> <<DsColumn, IdColumn, MeanColumn>>
                    \o [c \in 1..Len(levels) |-> QuantileColumn(levels[c])],
     values |-> (MeanColumn :> [i \in 1..Len(dates) |-> ModelValue(0, i)])
                 @@ [col \in {QuantileColumn(levels[c]) : c \in 1..Len(levels)} |->
                        [i \in 1..Len(dates) |->
                            ModelValue(CHOOSE c \in 1..Len(levels) :
                                           QuantileColumn(levels[c]) = col, i)]]]

\* Future dates counted from the time of the run instead of the last context row.
future_dates_from_now(df, freq, count) ==
    [i \in 1..count |-> fc.now + i * freq]

\* future_dates of both adapters: count dates after the last context row, freq apart.
future_dates(df, freq, count) ==
    [i \in 1..count |-> df[Len(df)].ds + i * freq]

\* last_dt - prev_dt
LastInterval(df) == df[Len(df)].ds - df[Len(df) - 1].ds

\* RemoteModelAdapter.predict from the response on.
remote_result_df(df, answer) ==
    IF answer.length = 0
    THEN EmptyFrame
    ELSE IF Len(df) >= 2
    THEN ResultFrame(future_dates(df, LastInterval(df), answer.length), answer.levels)
    ELSE [EmptyFrame EXCEPT
             !.error = "ValueError: Input context too short to infer frequency"]

\* pd.Timedelta("1m")
DefaultFreq == 60

\* ChronosAdapter.predict from the samples on: the samples have the length asked for.
chronos_result_df(df, prediction_length, quantiles) ==
    ResultFrame(future_dates(df, IF Len(df) >= 2 THEN LastInterval(df) ELSE DefaultFreq,
                             prediction_length),
                quantiles)

\* generate_forecast from the fetched frame on; an empty frame in, an empty frame out.
forecast_df_of(model_type, context_df, horizon, step, answer) ==
    IF context_df = <<>>
    THEN EmptyFrame
    ELSE IF model_type = "remote"
    THEN remote_result_df(context_df, answer)
    ELSE chronos_result_df(context_df,
                           TruncDiv(_parse_duration(horizon).value,
                                    _parse_duration(step).value),
                           RequestQuantiles)

\* col.startswith("q_")
IsQuantileColumn(col) == Len(col) >= 2 /\ col[1] = "q" /\ col[2] = "_"

\* The columns the quantile loop takes, in column order.
QuantileColumns(forecast_df) == SelectSeq(forecast_df.columns, IsQuantileColumn)

\* pipeline.query.split("{")[0].strip()
source_metric(query) == Strip(SplitAt(query, "{")[1])

\* The unique_id f-strings of pipelines.inference.InferenceLoop.write_forecast_results.
MeanId(base_name, name, source) ==
    base_name \o <<"_", "f", "o", "r", "e", "c", "a", "s", "t", "{", "p", "i", "p", "e", "l", "i", "n", "e", "=", "\"">> \o name \o <<"\"", ",", " ", "s", "o", "u", "r", "c", "e", "=", "\"">> \o source \o <<"\"", ",", " ", "t", "y", "p", "e", "=", "\"", "m", "e", "a", "n", "\"", "}">>

QuantileId(base_name, name, source, quantile) ==
    base_name \o <<"_", "f", "o", "r", "e", "c", "a", "s", "t", "{", "p", "i", "p", "e", "l", "i", "n", "e", "=", "\"">> \o name \o <<"\"", ",", " ", "s", "o", "u", "r", "c", "e", "=", "\"">> \o source \o <<"\"", ",", " ", "q", "u", "a", "n", "t", "i", "l", "e", "=", "\"">> \o quantile \o <<"\"", "}">>

\* The unique_id f-strings of core.services.inference_loop.InferenceLoop.run_pipeline.
CoreMeanId(base_name, name) ==
    base_name \o <<"_", "f", "o", "r", "e", "c", "a", "s", "t", "{", "p", "i", "p", "e", "l", "i", "n", "e", "=", "\"">> \o name \o <<"\"", ",", " ", "t", "y", "p", "e", "=", "\"", "m", "e", "a", "n", "\"", "}">>

CoreQuantileId(base_name, name, quantile) ==
    base_name \o <<"_", "f", "o", "r", "e", "c", "a", "s", "t", "{", "p", "i", "p", "e", "l", "i", "n", "e", "=", "\"">> \o name \o <<"\"", ",", " ", "q", "u", "a", "n", "t", "i", "l", "e", "=", "\"">> \o quantile \o <<"\"", "}">>

\* The rows appended for row i of the forecast: the mean, then each quantile column.
RowMetrics(forecast_df, i, mean_id, quantile_ids) ==
    <<[unique_id |-> mean_id, ds |-> forecast_df.ds[i],
       y |-> forecast_df.values[MeanColumn][i]]>>
    \o [c \in 1..Len(QuantileColumns(forecast_df)) |->
           [unique_id |-> quantile_ids[c], ds |-> forecast_df.ds[i],
            y |-> forecast_df.values[QuantileColumns(forecast_df)[c]][i]]]

RECURSIVE OutputMetrics(_, _, _, _)
OutputMetrics(forecast_df, i, mean_id, quantile_ids) ==
    IF i > Len(forecast_df.ds) THEN <<>>
    ELSE RowMetrics(forecast_df, i, mean_id, quantile_ids)
             \o OutputMetrics(forecast_df, i + 1, mean_id, quantile_ids)

\* col.split("_")[1]
QuantileOf(col) == SplitAt(col, "_")[2]

\* pipelines.inference.InferenceLoop.write_forecast_results: output_metrics.
write_forecast_results(name, prefix, query, forecast_df) ==
    OutputMetrics(forecast_df, 1,
                  MeanId(prefix \o name, name, source_metric(query)),
                  [c \in 1..Len(QuantileColumns(forecast_df)) |->
                      QuantileId(prefix \o name, name, source_metric(query),
                                 QuantileOf(QuantileColumns(forecast_df)[c]))])

\* core.services.inference_loop.InferenceLoop.run_pipeline: output_metrics.
core_write_results(name, prefix, forecast_df) ==
    OutputMetrics(forecast_df, 1,
                  CoreMeanId(prefix \o name, name),
                  [c \in 1..Len(QuantileColumns(forecast_df)) |->
                      CoreQuantileId(prefix \o name, name,
                                     QuantileOf(QuantileColumns(forecast_df)[c]))])

\* PrometheusAdapter.write: the point made of a row, its identifier taken apart.
PointOf(row) ==
    [metric_name |-> ParseRawId(row.unique_id).metric_name,
     attributes |-> ParseRawId(row.unique_id).labels,
     time |-> row.ds,
     value |-> row.y]

SeriesKey(point) == <<point.metric_name, point.attributes, point.time>>

\* The store after remote write of the points in order: a sample replaces the
\* sample of the same series at the same time.
RECURSIVE Stored(_, _)
Stored(store, points) ==
    IF points = <<>> THEN store
    ELSE Stored({q \in store : SeriesKey(q) # SeriesKey(Head(points))}
                    \cup {Head(points)},
                Tail(points))

PointsOf(rows) == [j \in 1..Len(rows) |-> PointOf(rows[j])]

\* One run of the cycle recorded: the forecast, the rows written, the store after.
Ran(forecast_df, output_metrics) ==
    [fc EXCEPT !.stage = "ran",
               !.runs = @ + 1,
               !.now = @ + _parse_duration(PipelineStep).value,
               !.forecast_df = forecast_df,
               !.written = output_metrics,
               !.store = Stored(fc.store, PointsOf(output_metrics))]

\* pipelines.inference.InferenceLoop.run_forecast, once more over the same
\* fetched rows and the same model answer.
PipelinesRunForecast ==
    /\ fc.stage \in {"fetched", "ran"} /\ fc.entry = "run_forecast"
    /\ fc.runs < MaxRuns
    /\ LET forecast_df == forecast_df_of(fc.model_type, fc.context_df, fc.horizon,
                                         fc.step, fc.answer)
       IN  fc' = Ran(forecast_df,
                     IF forecast_df.error = "" /\ forecast_df.ds # <<>>
                     THEN write_forecast_results(fc.name, fc.prefix, fc.query, forecast_df)
                     ELSE <<>>)
    /\ UNCHANGED <<schedVars, concVars, haVars, durVars, codecVars, taskVars>>

\* core.services.inference_loop.InferenceLoop.run_pipeline, likewise.
CoreRunPipeline ==
    /\ fc.stage \in {"fetched", "ran"} /\ fc.entry = "run_pipeline"
    /\ fc.runs < MaxRuns
    /\ LET forecast_df == forecast_df_of(fc.model_type, fc.context_df, fc.horizon,
                                         fc.step, fc.answer)
       IN  fc' = Ran(forecast_df,
                     IF forecast_df.error = "" /\ forecast_df.ds # <<>>
                     THEN core_write_results(fc.name, fc.prefix, forecast_df)
                     ELSE <<>>)
    /\ UNCHANGED <<schedVars, concVars, haVars, durVars, codecVars, taskVars>>

\* The answers that matter to a model type: Chronos takes nothing from an endpoint.
AnswersOf(model_type) ==
    IF model_type = "remote" THEN RemoteAnswers
    ELSE {[length |-> 0, levels |-> <<>>]}

InitForecast ==
    /\ \E entry \in {"run_forecast", "run_pipeline"} :
       \E model_type \in {"remote", "chronos"} :
       \E context_df \in Contexts : \E horizon \in Horizons : \E query \in Queries :
       \E answer \in AnswersOf(model_type) :
          fc = [stage |-> "fetched", entry |-> entry, model_type |-> model_type,
                name |-> ForecastPipelineName, prefix |-> MetricPrefix, query |-> query,
                step |-> PipelineStep, horizon |-> horizon,
                context_df |-> context_df, answer |-> answer,
                now |-> (MaxContextTick + 1) * _parse_duration(PipelineStep).value,
                runs |-> 0, forecast_df |-> EmptyFrame, written |-> <<>>, store |-> {}]
    /\ db = [n \in PipelineNames |-> NoRow]
    /\ redis = <<>>
    /\ last = [op |-> "none", name |-> "", unchanged |-> FALSE, had |-> {}, down |-> {}]
    /\ procs = <<>>
    /\ base = <<>>
    /\ HAIdle
    /\ DurIdle
    /\ CodecIdle
    /\ TaskIdle

NextForecast ==
    \/ PipelinesRunForecast
    \/ CoreRunPipeline

SpecForecast == InitForecast /\ [][NextForecast]_vars

\* The request's length: horizon over step, truncated.
PredictionLength ==
    TruncDiv(_parse_duration(fc.horizon).value, _parse_duration(fc.step).value)

\* The context rows are those of one series, and the model answered with as
\* many values as were asked for.
OneSeriesAndFullAnswer ==
    /\ \A i \in 1..Len(fc.context_df) : fc.context_df[i].unique_id = "s1"
    /\ fc.model_type = "remote" => fc.answer.length = PredictionLength

\* C23: a non-empty forecast covers exactly prediction_length timestamps, all
\* later than the last context row, consecutive ones one pipeline step apart
\* (stated for a context of two or more rows of one series and a model answer
\* of the length asked for).
C23_ForecastTimestamps ==
    (fc.stage = "ran" /\ fc.forecast_df.error = "" /\ fc.forecast_df.ds # <<>>
        /\ Len(fc.context_df) >= 2 /\ OneSeriesAndFullAnswer)
        => LET ds == fc.forecast_df.ds IN
           /\ Len(ds) = PredictionLength
           /\ \A i \in 1..Len(ds) : ds[i] > fc.context_df[Len(fc.context_df)].ds
           /\ \A i \in 1..(Len(ds) - 1) :
                 ds[i + 1] - ds[i] = _parse_duration(fc.step).value

\* The rows written for the timestamp t whose identifier, taken apart by the
\* store adapter, carries the label key with the value v.
RowsTagged(t, key, v) ==
    {j \in 1..Len(fc.written) :
        /\ fc.written[j].ds = t
        /\ key \in DOMAIN PointOf(fc.written[j]).attributes
        /\ PointOf(fc.written[j]).attributes[key] = v}

TimesAt(t) == {i \in 1..Len(fc.forecast_df.ds) : fc.forecast_df.ds[i] = t}

TypeKey == <<"t", "y", "p", "e">>
QuantileKey == <<"q", "u", "a", "n", "t", "i", "l", "e">>
PipelineKey == <<"p", "i", "p", "e", "l", "i", "n", "e">>
SourceKey == <<"s", "o", "u", "r", "c", "e">>
ForecastSuffix == <<"_", "f", "o", "r", "e", "c", "a", "s", "t">>

\* C22: for a forecast of T timestamps and Q quantile columns the loop emits
\* T*(1+Q) rows: per timestamp one tagged type="mean" and one per quantile
\* column tagged quantile="<level>"; every row is named
\* <metric_prefix><pipeline name>_forecast and labelled pipeline=<name> and
\* source=<the query text before its first brace>.
C22_RowsPerTimestamp ==
    (fc.stage = "ran" /\ fc.forecast_df.error = "" /\ fc.forecast_df.ds # <<>>)
        => LET T == Len(fc.forecast_df.ds)
               cols == QuantileColumns(fc.forecast_df)
           IN
           /\ Len(fc.written) = T * (1 + Len(cols))
           /\ \A i \in 1..T :
                 LET t == fc.forecast_df.ds[i] IN
                 /\ Cardinality(RowsTagged(t, TypeKey, MeanColumn))
                        = Cardinality(TimesAt(t))
                 /\ \A c \in 1..Len(cols) :
                       Cardinality(RowsTagged(t, QuantileKey,
                                              SubSeq(cols[c], 3, Len(cols[c]))))
                           = Cardinality(TimesAt(t))
           /\ \A j \in 1..Len(fc.written) :
                 LET point == PointOf(fc.written[j]) IN
                 /\ point.metric_name = fc.prefix \o fc.name \o ForecastSuffix
                 /\ PipelineKey \in DOMAIN point.attributes
                 /\ point.attributes[PipelineKey] = fc.name
                 /\ SourceKey \in DOMAIN point.attributes
                 /\ point.attributes[SourceKey] = Strip(SplitOnce(fc.query, "{")[1])

====
